---------------------------- MODULE AssetsProofs ----------------------------
(***************************************************************************)
(* Loading and bring-up, for every set of modules, every firmware image and *)
(* every bound: types, the init locks, and the two races of                 *)
(* loader and worker.  What holds only for the first life of a card is      *)
(* stated for it (probes <= 1).                                             *)
(***************************************************************************)
EXTENDS Assets, TLAPS

(***************************************************************************)
(* The bus driver and its card.                                             *)
(***************************************************************************)
BusInv ==
  /\ bus_pc = "remove" => bus_id \in Techs
  /\ bus_pc = "up" => card_state = "aboard"

(***************************************************************************)
(* Before the first probe no firmware is up, so nobody is in an insert or   *)
(* remove function.                                                         *)
(***************************************************************************)
BeforeProbe ==
  probes = 0 =>
    /\ bus_pc = "absent" /\ card_state = "none"
    /\ rx_queue = <<>> /\ rx_pc = "idle"
    /\ common_hal_fsm = "WAIT_FOR_CARD_READY"
    /\ \A p \in AllIds : ~fw_state[p]
    /\ \A p \in Techs : /\ mod_pc[p] \in {"out", "hook", "check", "in", "drop"}
                        /\ drv_state[p] # "ACTIVE" /\ ~priv[p]

BaseInv ==
  /\ Fields
  /\ BusInv
  /\ BeforeProbe

(***************************************************************************)
(* A loader past SetHooks has done its part, and a module that is loaded    *)
(* with its firmware up and not yet active is in the hands of the worker.   *)
(***************************************************************************)
HandoverInv(p) ==
  /\ mod_pc[p] \in {"hook", "check", "lock", "alloc", "poll", "in"} => drv_state[p] # "REMOVED"
  /\ mod_pc[p] \in {"check", "lock", "alloc", "poll", "in"} => hooks[p]
  /\ mod_pc[p] = "poll" => drv_state[p] = "ACTIVE"
  /\ mod_pc[p] = "in" /\ fw_state[p] /\ drv_state[p] # "ACTIVE"
     => rx_id = p /\ rx_pc \in {"config", "inaugurate", "lock", "alloc"}

FirstLife == probes = 0 \/ (probes = 1 /\ bus_pc = "up")

LoadInv == FirstLife => \A p \in Techs : HandoverInv(p)

(***************************************************************************)
(* Without unloading and unplugging: who is past the test in an insert      *)
(* function holds the lock and found the module not active; an adapter      *)
(* belongs to an active module; the worker does not enter before the hooks  *)
(* are set.                                                                 *)
(***************************************************************************)
InsertInv ==
  /\ bus_pc \in {"absent", "up"} /\ (bus_pc = "absent" => probes = 0)
  /\ \A p \in Techs :
       /\ mod_pc[p] \notin {"remove", "forget", "drop"}
       /\ mod_pc[p] \in {"out", "hook"} =>
            ~hooks[p] /\ drv_state[p] # "ACTIVE" /\ ~(rx_id = p /\ rx_pc \in {"lock", "alloc", "poll"})
       /\ priv[p] => drv_state[p] = "ACTIVE"
       /\ \A c \in Callers :
            /\ At(c, p, "alloc") \/ At(c, p, "poll") => init_lock[p] = c
            /\ At(c, p, "alloc") => drv_state[p] # "ACTIVE"
-----------------------------------------------------------------------------
\* Program start.
LEMMA BaseInit == Init => BaseInv
<1> SUFFICES ASSUME Init PROVE BaseInv
  OBVIOUS
<1>1. Fields
  <2>1. common_hal_tx_access \in BOOLEAN /\ wlan_tx_access \in BOOLEAN
    BY Zenon DEF Init
  <2> QED
    BY <2>1, BoundAssumption DEF Init, Fields, AllIds, MAX_IDS, WLAN_ID, Callers
<1>2. BusInv /\ BeforeProbe
  BY DEF Init, BusInv, BeforeProbe
<1> QED
  BY <1>1, <1>2 DEF BaseInv

(***************************************************************************)
(* Every step of loaders, worker, bus driver and firmware keeps BaseInv.    *)
(***************************************************************************)
LEMMA BaseStep == BaseInv /\ [Next]_vars => BaseInv'
<1> SUFFICES ASSUME BaseInv, [Next]_vars PROVE BaseInv'
  OBVIOUS
<1> USE TechsAssumption, BoundAssumption, FlagsAssumption
        DEF CoexModes, AllIds, MAX_IDS, WLAN_ID, BT_ID, ZB_ID, Callers,
            assetVars, halVars, rxVars, busVars
<1>1. ASSUME NEW p \in Techs, ModuleInit(p) PROVE BaseInv'
  <2>1. Fields'
    BY <1>1 DEF BaseInv, Fields, BusInv, ModuleInit
  <2>2. BusInv'
    BY <1>1 DEF BaseInv, Fields, BusInv, ModuleInit
  <2>3. BeforeProbe'
    BY <1>1 DEF BaseInv, Fields, BusInv, BeforeProbe, ModuleInit
  <2> QED
    BY <2>1, <2>2, <2>3 DEF BaseInv
<1>2. ASSUME NEW p \in Techs, ModuleExit(p) PROVE BaseInv'
  <2>1. Fields'
    BY <1>2 DEF BaseInv, Fields, BusInv, ModuleExit
  <2>2. BusInv'
    BY <1>2 DEF BaseInv, Fields, BusInv, ModuleExit
  <2>3. BeforeProbe'
    BY <1>2 DEF BaseInv, Fields, BusInv, BeforeProbe, ModuleExit
  <2> QED
    BY <2>1, <2>2, <2>3 DEF BaseInv
<1>3. ASSUME NEW p \in Techs, SetHooks(p) PROVE BaseInv'
  <2>1. Fields'
    BY <1>3 DEF BaseInv, Fields, BusInv, SetHooks
  <2>2. BusInv'
    BY <1>3 DEF BaseInv, Fields, BusInv, SetHooks
  <2>3. BeforeProbe'
    BY <1>3 DEF BaseInv, Fields, BusInv, BeforeProbe, SetHooks
  <2> QED
    BY <2>1, <2>2, <2>3 DEF BaseInv
<1>4. ASSUME NEW p \in Techs, CheckCard(p) PROVE BaseInv'
  <2>1. Fields'
    BY <1>4 DEF BaseInv, Fields, BusInv, CheckCard
  <2>2. BusInv'
    BY <1>4 DEF BaseInv, Fields, BusInv, CheckCard
  <2>3. BeforeProbe'
    BY <1>4 DEF BaseInv, Fields, BusInv, BeforeProbe, CheckCard
  <2> QED
    BY <2>1, <2>2, <2>3 DEF BaseInv
<1>5. ASSUME NEW p \in Techs, NEW c \in Callers, InsertLock(c, p) PROVE BaseInv'
  <2>1. Fields'
    BY <1>5 DEF BaseInv, Fields, BusInv, InsertLock, At, Goto, Return, Unlock, Loader, Worker
  <2>2. BusInv'
    BY <1>5 DEF BaseInv, Fields, BusInv, InsertLock, At, Goto, Return, Unlock, Loader, Worker
  <2>3. BeforeProbe'
    BY <1>5 DEF BaseInv, Fields, BusInv, BeforeProbe, InsertLock, At, Goto, Return, Unlock, Loader, Worker
  <2> QED
    BY <2>1, <2>2, <2>3 DEF BaseInv
<1>6. ASSUME NEW p \in Techs, NEW c \in Callers, InsertFail(c, p) PROVE BaseInv'
  <2>1. Fields'
    BY <1>6 DEF BaseInv, Fields, BusInv, InsertFail, At, Goto, Return, Unlock, Loader, Worker
  <2>2. BusInv'
    BY <1>6 DEF BaseInv, Fields, BusInv, InsertFail, At, Goto, Return, Unlock, Loader, Worker
  <2>3. BeforeProbe'
    BY <1>6 DEF BaseInv, Fields, BusInv, BeforeProbe, InsertFail, At, Goto, Return, Unlock, Loader, Worker
  <2> QED
    BY <2>1, <2>2, <2>3 DEF BaseInv
<1>7. ASSUME NEW p \in Techs, NEW c \in Callers, InsertActive(c, p) PROVE BaseInv'
  <2>1. Fields'
    BY <1>7 DEF BaseInv, Fields, BusInv, InsertActive, At, Goto, Return, Unlock, Loader, Worker
  <2>2. BusInv'
    BY <1>7 DEF BaseInv, Fields, BusInv, InsertActive, At, Goto, Return, Unlock, Loader, Worker
  <2>3. BeforeProbe'
    BY <1>7 DEF BaseInv, Fields, BusInv, BeforeProbe, InsertActive, At, Goto, Return, Unlock, Loader, Worker
  <2> QED
    BY <2>1, <2>2, <2>3 DEF BaseInv
<1>8. ASSUME NEW c \in Callers, WLAN_ID \in Techs, PollAccess(c) PROVE BaseInv'
  <2>1. Fields'
    BY <1>8 DEF BaseInv, Fields, BusInv, PollAccess, At, Goto, Return, Unlock, Loader, Worker
  <2>2. BusInv'
    BY <1>8 DEF BaseInv, Fields, BusInv, PollAccess, At, Goto, Return, Unlock, Loader, Worker
  <2>3. BeforeProbe'
    BY <1>8 DEF BaseInv, Fields, BusInv, BeforeProbe, PollAccess, At, Goto, Return, Unlock, Loader, Worker
  <2> QED
    BY <2>1, <2>2, <2>3 DEF BaseInv
<1>9. ASSUME NEW p \in Techs, Remove(p) PROVE BaseInv'
  <2>1. Fields'
    BY <1>9 DEF BaseInv, Fields, BusInv, Remove
  <2>2. BusInv'
    BY <1>9 DEF BaseInv, Fields, BusInv, Remove
  <2>3. BeforeProbe'
    BY <1>9 DEF BaseInv, Fields, BusInv, BeforeProbe, Remove
  <2> QED
    BY <2>1, <2>2, <2>3 DEF BaseInv
<1>22. ASSUME NEW p \in Techs, Forget(p) PROVE BaseInv'
  <2>1. Fields'
    BY <1>22 DEF BaseInv, Fields, BusInv, Forget
  <2>2. BusInv'
    BY <1>22 DEF BaseInv, Fields, BusInv, Forget
  <2>3. BeforeProbe'
    BY <1>22 DEF BaseInv, Fields, BusInv, BeforeProbe, Forget
  <2> QED
    BY <2>1, <2>2, <2>3 DEF BaseInv
<1>10. ASSUME NEW p \in Techs, Drop(p) PROVE BaseInv'
  <2>1. Fields'
    BY <1>10 DEF BaseInv, Fields, BusInv, Drop
  <2>2. BusInv'
    BY <1>10 DEF BaseInv, Fields, BusInv, Drop
  <2>3. BeforeProbe'
    BY <1>10 DEF BaseInv, Fields, BusInv, BeforeProbe, Drop
  <2> QED
    BY <2>1, <2>2, <2>3 DEF BaseInv
<1>11. ASSUME RxTake PROVE BaseInv'
  <2>1. Fields'
    BY <1>11 DEF BaseInv, Fields, BusInv, RxTake
  <2>2. BusInv'
    BY <1>11 DEF BaseInv, Fields, BusInv, RxTake
  <2>3. BeforeProbe'
    BY <1>11 DEF BaseInv, Fields, BusInv, BeforeProbe, RxTake
  <2> QED
    BY <2>1, <2>2, <2>3 DEF BaseInv
<1>12. ASSUME RxReady PROVE BaseInv'
  <2>1. Fields'
    BY <1>12 DEF BaseInv, Fields, BusInv, RxReady
  <2>2. BusInv'
    BY <1>12 DEF BaseInv, Fields, BusInv, RxReady
  <2>3. BeforeProbe'
    BY <1>12 DEF BaseInv, Fields, BusInv, BeforeProbe, RxReady
  <2> QED
    BY <2>1, <2>2, <2>3 DEF BaseInv
<1>13. ASSUME RxConfig PROVE BaseInv'
  <2>1. Fields'
    BY <1>13 DEF BaseInv, Fields, BusInv, RxConfig
  <2>2. BusInv'
    BY <1>13 DEF BaseInv, Fields, BusInv, RxConfig
  <2>3. BeforeProbe'
    BY <1>13 DEF BaseInv, Fields, BusInv, BeforeProbe, RxConfig
  <2> QED
    BY <2>1, <2>2, <2>3 DEF BaseInv
<1>14. ASSUME RxInaugurate PROVE BaseInv'
  <2>1. Fields'
    BY <1>14 DEF BaseInv, Fields, BusInv, RxInaugurate
  <2>2. BusInv'
    BY <1>14 DEF BaseInv, Fields, BusInv, RxInaugurate
  <2>3. BeforeProbe'
    BY <1>14 DEF BaseInv, Fields, BusInv, BeforeProbe, RxInaugurate
  <2> QED
    BY <2>1, <2>2, <2>3 DEF BaseInv
<1>15. ASSUME Probe PROVE BaseInv'
  <2>1. Fields'
    BY <1>15 DEF BaseInv, Fields, BusInv, Probe
  <2>2. BusInv'
    BY <1>15 DEF BaseInv, Fields, BusInv, Probe
  <2>3. BeforeProbe'
    BY <1>15 DEF BaseInv, Fields, BusInv, BeforeProbe, Probe
  <2> QED
    BY <2>1, <2>2, <2>3 DEF BaseInv
<1>16. ASSUME Disconnect PROVE BaseInv'
  <2>1. Fields'
    BY <1>16 DEF BaseInv, Fields, BusInv, Disconnect
  <2>2. BusInv'
    BY <1>16 DEF BaseInv, Fields, BusInv, Disconnect
  <2>3. BeforeProbe'
    BY <1>16 DEF BaseInv, Fields, BusInv, BeforeProbe, Disconnect
  <2> QED
    BY <2>1, <2>2, <2>3 DEF BaseInv
<1>17. ASSUME DisconnectAsset PROVE BaseInv'
  <2>1. Fields'
    BY <1>17 DEF BaseInv, Fields, BusInv, DisconnectAsset
  <2>2. BusInv'
    BY <1>17 DEF BaseInv, Fields, BusInv, DisconnectAsset
  <2>3. BeforeProbe'
    BY <1>17 DEF BaseInv, Fields, BusInv, BeforeProbe, DisconnectAsset
  <2> QED
    BY <2>1, <2>2, <2>3 DEF BaseInv
<1>18. ASSUME DisconnectRemove PROVE BaseInv'
  <2>1. Fields'
    <3>1. bus_id \in Techs
      BY <1>18 DEF BaseInv, BusInv, DisconnectRemove
    <3>2. fw_state' \in [AllIds -> BOOLEAN] /\ priv' \in [Techs -> BOOLEAN]
      BY <1>18, <3>1 DEF BaseInv, Fields, DisconnectRemove
    <3>3. bus_id' \in 0 .. MAX_IDS
      BY <1>18, <3>1 DEF DisconnectRemove
    <3> QED
      BY <1>18, <3>2, <3>3 DEF BaseInv, Fields, DisconnectRemove
  <2>2. BusInv'
    BY <1>18 DEF BaseInv, Fields, BusInv, DisconnectRemove
  <2>3. BeforeProbe'
    BY <1>18 DEF BaseInv, Fields, BusInv, BeforeProbe, DisconnectRemove
  <2> QED
    BY <2>1, <2>2, <2>3 DEF BaseInv
<1>19. ASSUME DisconnectEnd PROVE BaseInv'
  <2>1. Fields'
    BY <1>19 DEF BaseInv, Fields, BusInv, DisconnectEnd
  <2>2. BusInv'
    BY <1>19 DEF BaseInv, Fields, BusInv, DisconnectEnd
  <2>3. BeforeProbe'
    BY <1>19 DEF BaseInv, Fields, BusInv, BeforeProbe, DisconnectEnd
  <2> QED
    BY <2>1, <2>2, <2>3 DEF BaseInv
<1>20. ASSUME NEW p \in FwTechs, CardReady(p) PROVE BaseInv'
  <2>1. Fields'
    BY <1>20 DEF BaseInv, Fields, BusInv, CardReady
  <2>2. BusInv'
    BY <1>20 DEF BaseInv, Fields, BusInv, CardReady
  <2>3. BeforeProbe'
    BY <1>20 DEF BaseInv, Fields, BusInv, BeforeProbe, CardReady
  <2> QED
    BY <2>1, <2>2, <2>3 DEF BaseInv
<1>21. ASSUME UNCHANGED vars PROVE BaseInv'
  <2>1. Fields'
    BY <1>21 DEF BaseInv, Fields, BusInv, vars
  <2>2. BusInv'
    BY <1>21 DEF BaseInv, Fields, BusInv, vars
  <2>3. BeforeProbe'
    BY <1>21 DEF BaseInv, Fields, BusInv, BeforeProbe, vars
  <2> QED
    BY <2>1, <2>2, <2>3 DEF BaseInv
<1> QED
  BY <1>1, <1>2, <1>3, <1>4, <1>5, <1>6, <1>7, <1>8, <1>9, <1>10, <1>11, <1>12, <1>13, <1>14, <1>15,
     <1>16, <1>17, <1>18, <1>19, <1>20, <1>21, <1>22
     DEF Next, LoaderStep, WorkerStep, BusStep, InsertStep, Callers, Loader, Worker

(***************************************************************************)
(* BaseInv is an invariant.                                                 *)
(***************************************************************************)
THEOREM BaseInvariant == Spec => []BaseInv
BY BaseInit, BaseStep, PTL DEF Spec

-----------------------------------------------------------------------------
(***************************************************************************)
(* Every step keeps LoadInv if inserts do not fail.                         *)
(***************************************************************************)
LEMMA LoadStep == ~Faults /\ BaseInv /\ LoadInv /\ [Next]_vars => LoadInv'
<1> SUFFICES ASSUME ~Faults, BaseInv, LoadInv, [Next]_vars, FirstLife',
                    NEW q \in Techs
             PROVE  HandoverInv(q)'
  BY DEF LoadInv
<1> USE TechsAssumption, BoundAssumption, FlagsAssumption
        DEF CoexModes, AllIds, MAX_IDS, WLAN_ID, BT_ID, ZB_ID, Callers,
            assetVars, halVars, rxVars, busVars
<1>1. ASSUME NEW p \in Techs, ModuleInit(p) PROVE HandoverInv(q)'
  BY <1>1 DEF BaseInv, Fields, BusInv, BeforeProbe, LoadInv, FirstLife, HandoverInv, ModuleInit
<1>2. ASSUME NEW p \in Techs, ModuleExit(p) PROVE HandoverInv(q)'
  BY <1>2 DEF BaseInv, Fields, BusInv, BeforeProbe, LoadInv, FirstLife, HandoverInv, ModuleExit
<1>3. ASSUME NEW p \in Techs, SetHooks(p) PROVE HandoverInv(q)'
  BY <1>3 DEF BaseInv, Fields, BusInv, BeforeProbe, LoadInv, FirstLife, HandoverInv, SetHooks
<1>4. ASSUME NEW p \in Techs, CheckCard(p) PROVE HandoverInv(q)'
  BY <1>4 DEF BaseInv, Fields, BusInv, BeforeProbe, LoadInv, FirstLife, HandoverInv, CheckCard
<1>5. ASSUME NEW p \in Techs, NEW c \in Callers, InsertLock(c, p) PROVE HandoverInv(q)'
  BY <1>5 DEF BaseInv, Fields, BusInv, BeforeProbe, LoadInv, FirstLife, HandoverInv, InsertLock, At,
     Goto, Return, Unlock, Loader, Worker
<1>6. ASSUME NEW p \in Techs, NEW c \in Callers, InsertFail(c, p) PROVE HandoverInv(q)'
  BY <1>6 DEF BaseInv, Fields, BusInv, BeforeProbe, LoadInv, FirstLife, HandoverInv, InsertFail, At,
     Goto, Return, Unlock, Loader, Worker
<1>7. ASSUME NEW p \in Techs, NEW c \in Callers, InsertActive(c, p) PROVE HandoverInv(q)'
  BY <1>7 DEF BaseInv, Fields, BusInv, BeforeProbe, LoadInv, FirstLife, HandoverInv, InsertActive,
     At, Goto, Return, Unlock, Loader, Worker
<1>8. ASSUME NEW c \in Callers, WLAN_ID \in Techs, PollAccess(c) PROVE HandoverInv(q)'
  BY <1>8 DEF BaseInv, Fields, BusInv, BeforeProbe, LoadInv, FirstLife, HandoverInv, PollAccess, At,
     Goto, Return, Unlock, Loader, Worker
<1>9. ASSUME NEW p \in Techs, Remove(p) PROVE HandoverInv(q)'
  BY <1>9 DEF BaseInv, Fields, BusInv, BeforeProbe, LoadInv, FirstLife, HandoverInv, Remove
<1>22. ASSUME NEW p \in Techs, Forget(p) PROVE HandoverInv(q)'
  BY <1>22 DEF BaseInv, Fields, BusInv, BeforeProbe, LoadInv, FirstLife, HandoverInv, Forget
<1>10. ASSUME NEW p \in Techs, Drop(p) PROVE HandoverInv(q)'
  BY <1>10 DEF BaseInv, Fields, BusInv, BeforeProbe, LoadInv, FirstLife, HandoverInv, Drop
<1>11. ASSUME RxTake PROVE HandoverInv(q)'
  BY <1>11 DEF BaseInv, Fields, BusInv, BeforeProbe, LoadInv, FirstLife, HandoverInv, RxTake
<1>12. ASSUME RxReady PROVE HandoverInv(q)'
  BY <1>12 DEF BaseInv, Fields, BusInv, BeforeProbe, LoadInv, FirstLife, HandoverInv, RxReady
<1>13. ASSUME RxConfig PROVE HandoverInv(q)'
  BY <1>13 DEF BaseInv, Fields, BusInv, BeforeProbe, LoadInv, FirstLife, HandoverInv, RxConfig
<1>14. ASSUME RxInaugurate PROVE HandoverInv(q)'
  BY <1>14 DEF BaseInv, Fields, BusInv, BeforeProbe, LoadInv, FirstLife, HandoverInv, RxInaugurate
<1>15. ASSUME Probe PROVE HandoverInv(q)'
  BY <1>15 DEF BaseInv, Fields, BusInv, BeforeProbe, LoadInv, FirstLife, HandoverInv, Probe
<1>16. ASSUME Disconnect PROVE HandoverInv(q)'
  BY <1>16 DEF BaseInv, Fields, BusInv, BeforeProbe, LoadInv, FirstLife, HandoverInv, Disconnect
<1>17. ASSUME DisconnectAsset PROVE HandoverInv(q)'
  BY <1>17 DEF BaseInv, Fields, BusInv, BeforeProbe, LoadInv, FirstLife, HandoverInv, DisconnectAsset
<1>18. ASSUME DisconnectRemove PROVE HandoverInv(q)'
  BY <1>18 DEF BaseInv, Fields, BusInv, BeforeProbe, LoadInv, FirstLife, HandoverInv, DisconnectRemove
<1>19. ASSUME DisconnectEnd PROVE HandoverInv(q)'
  BY <1>19 DEF BaseInv, Fields, BusInv, BeforeProbe, LoadInv, FirstLife, HandoverInv, DisconnectEnd
<1>20. ASSUME NEW p \in FwTechs, CardReady(p) PROVE HandoverInv(q)'
  BY <1>20 DEF BaseInv, Fields, BusInv, BeforeProbe, LoadInv, FirstLife, HandoverInv, CardReady
<1>21. ASSUME UNCHANGED vars PROVE HandoverInv(q)'
  BY <1>21 DEF BaseInv, Fields, BusInv, BeforeProbe, LoadInv, FirstLife, HandoverInv, vars
<1> QED
  BY <1>1, <1>2, <1>3, <1>4, <1>5, <1>6, <1>7, <1>8, <1>9, <1>10, <1>11, <1>12, <1>13, <1>14, <1>15,
     <1>16, <1>17, <1>18, <1>19, <1>20, <1>21, <1>22
     DEF Next, LoaderStep, WorkerStep, BusStep, InsertStep, Callers, Loader, Worker

-----------------------------------------------------------------------------
(***************************************************************************)
(* Every step keeps InsertInv if nothing is unloaded or unplugged.          *)
(***************************************************************************)
LEMMA InsertStepInv == ~Unload /\ ~Unplug /\ BaseInv /\ InsertInv /\ [Next]_vars => InsertInv'
<1> SUFFICES ASSUME ~Unload, ~Unplug, BaseInv, InsertInv, [Next]_vars PROVE InsertInv'
  OBVIOUS
<1> USE TechsAssumption, BoundAssumption, FlagsAssumption
        DEF CoexModes, AllIds, MAX_IDS, WLAN_ID, BT_ID, ZB_ID, Callers,
            assetVars, halVars, rxVars, busVars
<1>1. ASSUME NEW p \in Techs, ModuleInit(p) PROVE InsertInv'
  BY <1>1 DEF BaseInv, Fields, BusInv, BeforeProbe, InsertInv, ModuleInit, At, Loader, Worker
<1>2. ASSUME NEW p \in Techs, ModuleExit(p) PROVE InsertInv'
  BY <1>2 DEF BaseInv, Fields, BusInv, BeforeProbe, InsertInv, ModuleExit, At, Loader, Worker
<1>3. ASSUME NEW p \in Techs, SetHooks(p) PROVE InsertInv'
  BY <1>3 DEF BaseInv, Fields, BusInv, BeforeProbe, InsertInv, SetHooks, At, Loader, Worker
<1>4. ASSUME NEW p \in Techs, CheckCard(p) PROVE InsertInv'
  BY <1>4 DEF BaseInv, Fields, BusInv, BeforeProbe, InsertInv, CheckCard, At, Loader, Worker
<1>5. ASSUME NEW p \in Techs, NEW c \in Callers, InsertLock(c, p) PROVE InsertInv'
  BY <1>5 DEF BaseInv, Fields, BusInv, BeforeProbe, InsertInv, InsertLock, At, Goto, Return, Unlock, Loader, Worker
<1>6. ASSUME NEW p \in Techs, NEW c \in Callers, InsertFail(c, p) PROVE InsertInv'
  BY <1>6 DEF BaseInv, Fields, BusInv, BeforeProbe, InsertInv, InsertFail, At, Goto, Return, Unlock, Loader, Worker
<1>7. ASSUME NEW p \in Techs, NEW c \in Callers, InsertActive(c, p) PROVE InsertInv'
  BY <1>7 DEF BaseInv, Fields, BusInv, BeforeProbe, InsertInv, InsertActive, At, Goto, Return, Unlock, Loader, Worker
<1>8. ASSUME NEW c \in Callers, WLAN_ID \in Techs, PollAccess(c) PROVE InsertInv'
  BY <1>8 DEF BaseInv, Fields, BusInv, BeforeProbe, InsertInv, PollAccess, At, Goto, Return, Unlock, Loader, Worker
<1>9. ASSUME NEW p \in Techs, Remove(p) PROVE InsertInv'
  BY <1>9 DEF BaseInv, Fields, BusInv, BeforeProbe, InsertInv, Remove, At, Loader, Worker
<1>22. ASSUME NEW p \in Techs, Forget(p) PROVE InsertInv'
  BY <1>22 DEF BaseInv, Fields, BusInv, BeforeProbe, InsertInv, Forget, At, Loader, Worker
<1>10. ASSUME NEW p \in Techs, Drop(p) PROVE InsertInv'
  BY <1>10 DEF BaseInv, Fields, BusInv, BeforeProbe, InsertInv, Drop, At, Loader, Worker
<1>11. ASSUME RxTake PROVE InsertInv'
  BY <1>11 DEF BaseInv, Fields, BusInv, BeforeProbe, InsertInv, RxTake, At, Loader, Worker
<1>12. ASSUME RxReady PROVE InsertInv'
  BY <1>12 DEF BaseInv, Fields, BusInv, BeforeProbe, InsertInv, RxReady, At, Loader, Worker
<1>13. ASSUME RxConfig PROVE InsertInv'
  BY <1>13 DEF BaseInv, Fields, BusInv, BeforeProbe, InsertInv, RxConfig, At, Loader, Worker
<1>14. ASSUME RxInaugurate PROVE InsertInv'
  BY <1>14 DEF BaseInv, Fields, BusInv, BeforeProbe, InsertInv, RxInaugurate, At, Loader, Worker
<1>15. ASSUME Probe PROVE InsertInv'
  BY <1>15 DEF BaseInv, Fields, BusInv, BeforeProbe, InsertInv, Probe, At, Loader, Worker
<1>16. ASSUME Disconnect PROVE InsertInv'
  BY <1>16 DEF BaseInv, Fields, BusInv, BeforeProbe, InsertInv, Disconnect, At, Loader, Worker
<1>17. ASSUME DisconnectAsset PROVE InsertInv'
  BY <1>17 DEF BaseInv, Fields, BusInv, BeforeProbe, InsertInv, DisconnectAsset, At, Loader, Worker
<1>18. ASSUME DisconnectRemove PROVE InsertInv'
  BY <1>18 DEF BaseInv, Fields, BusInv, BeforeProbe, InsertInv, DisconnectRemove, At, Loader, Worker
<1>19. ASSUME DisconnectEnd PROVE InsertInv'
  BY <1>19 DEF BaseInv, Fields, BusInv, BeforeProbe, InsertInv, DisconnectEnd, At, Loader, Worker
<1>20. ASSUME NEW p \in FwTechs, CardReady(p) PROVE InsertInv'
  BY <1>20 DEF BaseInv, Fields, BusInv, BeforeProbe, InsertInv, CardReady, At, Loader, Worker
<1>21. ASSUME UNCHANGED vars PROVE InsertInv'
  BY <1>21 DEF BaseInv, Fields, BusInv, BeforeProbe, InsertInv, vars, At, Loader, Worker
<1> QED
  BY <1>1, <1>2, <1>3, <1>4, <1>5, <1>6, <1>7, <1>8, <1>9, <1>10, <1>11, <1>12, <1>13, <1>14, <1>15,
     <1>16, <1>17, <1>18, <1>19, <1>20, <1>21, <1>22
     DEF Next, LoaderStep, WorkerStep, BusStep, InsertStep, Callers, Loader, Worker

(***************************************************************************)
(* Every return of an insert function releases the init lock, and nothing   *)
(* but the insert functions and the probe touches it.                       *)
(***************************************************************************)
LEMMA LockStep == BaseInv /\ LockHeld /\ [Next]_vars => LockHeld'
<1> SUFFICES ASSUME BaseInv, LockHeld, [Next]_vars PROVE LockHeld'
  OBVIOUS
<1> USE TechsAssumption
        DEF CoexModes, AllIds, MAX_IDS, WLAN_ID, BT_ID, ZB_ID, Callers, Loader, Worker,
            assetVars, halVars, rxVars, busVars, BaseInv, Fields, LockHeld, At
<1>1. ASSUME NEW p \in Techs, ModuleInit(p) \/ ModuleExit(p) \/ SetHooks(p) \/ CheckCard(p) PROVE LockHeld'
  BY <1>1 DEF ModuleInit, ModuleExit, SetHooks, CheckCard
<1>2. ASSUME NEW p \in Techs, Remove(p) \/ Forget(p) \/ Drop(p) PROVE LockHeld'
  BY <1>2 DEF Remove, Forget, Drop
<1>3. ASSUME NEW p \in Techs, NEW c \in Callers, InsertLock(c, p) PROVE LockHeld'
  BY <1>3 DEF InsertLock, Goto, Return
<1>4. ASSUME NEW p \in Techs, NEW c \in Callers, InsertFail(c, p) PROVE LockHeld'
  BY <1>4 DEF InsertFail, Goto, Return, Unlock
<1>5. ASSUME NEW p \in Techs, NEW c \in Callers, InsertActive(c, p) PROVE LockHeld'
  BY <1>5 DEF InsertActive, Goto, Return, Unlock
<1>6. ASSUME NEW c \in Callers, WLAN_ID \in Techs, PollAccess(c) PROVE LockHeld'
  BY <1>6 DEF PollAccess, Goto, Return, Unlock
<1>7. ASSUME RxTake \/ RxReady \/ RxConfig \/ RxInaugurate PROVE LockHeld'
  BY <1>7 DEF RxTake, RxReady, RxConfig, RxInaugurate
<1>8. ASSUME Probe PROVE LockHeld'
  BY <1>8 DEF Probe
<1>9. ASSUME Disconnect \/ BusStep PROVE LockHeld'
  BY <1>9 DEF Disconnect, BusStep, DisconnectAsset, DisconnectRemove, DisconnectEnd
<1>10. ASSUME NEW p \in FwTechs, CardReady(p) PROVE LockHeld'
  BY <1>10 DEF CardReady
<1>11. ASSUME UNCHANGED vars PROVE LockHeld'
  BY <1>11 DEF vars
<1> QED
  BY <1>1, <1>2, <1>3, <1>4, <1>5, <1>6, <1>7, <1>8, <1>9, <1>10, <1>11
     DEF Next, LoaderStep, WorkerStep, InsertStep

(***************************************************************************)
(* The fields of driver_assets keep their types, and no return of an insert *)
(* function leaves the protocol's init lock held, in every life of a card,  *)
(* with modules loaded and unloaded and with failing inserts.               *)
(***************************************************************************)
THEOREM TypeCorrect == Spec => []TypeOK
<1>1. Init => LockHeld
  BY DEF Init, LockHeld
<1>2. BaseInv /\ LockHeld => TypeOK
  BY DEF BaseInv, TypeOK
<1> QED
  BY <1>1, <1>2, LockStep, BaseInvariant, PTL DEF Spec

(***************************************************************************)
(* Loader and worker, which read and write drv_state, fw_state and the      *)
(* hooks without a lock, do not both leave the bring-up to the other.       *)
(***************************************************************************)
THEOREM ActivationNotLost ==
  ASSUME ~Faults
  PROVE  Spec => [](probes <= 1 => NoLostActivation)
<1>1. Init => LoadInv
  BY DEF Init, LoadInv, HandoverInv
<1>2. BaseInv /\ LoadInv => (probes <= 1 => NoLostActivation)
  BY BoundAssumption DEF BaseInv, Fields, BeforeProbe, LoadInv, FirstLife, HandoverInv, NoLostActivation
<1>3. ~Faults
  OBVIOUS
<1> QED
  BY <1>1, <1>2, <1>3, LoadStep, BaseInvariant, PTL DEF Spec

(***************************************************************************)
(* The second caller of an insert function finds the module active under    *)
(* the init lock, as long as no module is unloaded and the card stays.      *)
(***************************************************************************)
THEOREM OneInsert ==
  ASSUME ~Unload, ~Unplug
  PROVE  Spec => []SingleInsert
<1>1. Init => InsertInv
  BY DEF Init, InsertInv, At, Callers, Loader, Worker
<1>2. InsertInv => SingleInsert
  BY DEF InsertInv, SingleInsert
<1>3. ~Unload /\ ~Unplug
  OBVIOUS
<1> QED
  BY <1>1, <1>2, <1>3, InsertStepInv, BaseInvariant, PTL DEF Spec
=============================================================================
