# A TLA+ model of the Redpine RS9113 host driver

The repository is the Linux host driver of a combo card (802.11, Bluetooth,
ZigBee over one SDIO or USB function). One *common HAL* module owns the bus and
the firmware; the protocol modules (`wlan`, `bt`, `zigbee`) load and unload
independently and share the card through `struct driver_assets`. The driver is
concurrent throughout: two transmit threads, a receive worker, timers, ioctls,
the module loader, the bus driver's probe and disconnect, and a firmware that
goes to sleep on its own initiative. Few of the fields they share are covered
by a lock. That is what this project is about.

Contents: [inventory](#inventory) · [modules](#the-modules) ·
[runs](#the-runs) · [fairness](#fairness) · [proofs](#the-proofs) ·
[disagreements with the code's own words](#where-the-code-disagrees-with-its-own-words) ·
[not modelled](#what-is-not-modelled) · [plan](#plan)

## Inventory

### Transmit-access arbitration and the sleep handshake (`common_hal/osi/onebox_common_pwr_mngr.c`, `onebox_common_tx.c`)

*State.* `common_hal_tx_access`, `sleep_entry_recvd`, `ulp_sleep_ack_sent`,
`ulp_sleep_token`; per protocol `tx_intention`, `tx_access`,
`deregister_flags` with its wait queue.
*Operations.* A transmit thread announces its intention and asks for access
(`update_tx_status`), waits up to 3 or 6 s if it is refused, sends, and when its
queues are empty drops intention and access. The firmware asks to sleep with a
`ULP_SLEEP_NOTIFY` frame; the driver acks at once if no protocol intends to
transmit, else the last protocol to give up acks. A second frame reports the
end of the sleep and the worker wakes the waiting threads.
*Hard.* Flags are tested and set outside `tx_access_lock`; two contexts may
send the ack; waits time out and leave flags behind; the ack can fail.
*Correct if* the device never sleeps while access can be granted, each request
is acked at most once with its own token, no request is forgotten, and access
comes back.

### Driver assets: load, bring-up, removal (`onebox_coex.h`, `onebox_modules_init.c`, `onebox_common_init.c`, `onebox_common_rx.c`, the three `*_osd_init.c`, `onebox_sdio_main_osd.c`)

*State.* `card_state`; per protocol `drv_state`, `fw_state`, the `inaugurate`
and `disconnect` hooks, the adapter, an init lock; `common_hal_fsm` and
`common_hal_tx_access`.
*Operations.* `module_init` / `module_exit` of each protocol, the card-ready
frame of each protocol's firmware, `onebox_probe` / `onebox_disconnect`.
*Interaction.* A protocol is inserted when it is loaded and announced; whoever
comes second, loader or worker, does it.
*Hard.* `drv_state` and `fw_state` are written and read crosswise without a
lock; `wlan_insert` polls for access inside the worker; `driver_assets` outlives
the card.
*Correct if* no protocol is left loaded, announced and inactive; none is
inserted twice; every bring-up ends; no way through insert and removal leaves an
init lock held.

### WLAN power save (`wlan/wlan_hal/osi_wlan/devdep/rsi_9113/onebox_ps.c`)

*State.* `PS_STATE` (none, sleep request queued, sent, device in power save,
wakeup request sent), the delay flag, parameters in use and parameters from the
ioctl (`update_ta`), the traffic timer and load counters, the connection state
of the station.
*Operations.* `update_pwr_save_status` is called from nine paths (ioctl, timer,
data, pending management frame, scan end, connection, disconnection, confirms,
dequeue); `pwr_sve_event_handler` decides under the stack's lock.
*Hard.* Callers look at `PS_STATE` before the lock is taken; the transmit
thread changes it without the lock, and may send a request before the handler
that queued it has set the state; a confirm can overtake the mark "sent"; timers
are stopped and restarted in many places.
*Correct if* the request in flight is the one the state waits for, the driver
knows whether the device sleeps, transitions and delays end, monitoring goes on,
and held-back management frames leave.

### Host queues and WMM (`wlan/wlan_hal/osi_wlan/core/onebox_core_os_intf.c`, `onebox_core_wmm.c`, `onebox_core_vap.c`, block and unblock in `onebox_devdep_mgmt.c`)

*State.* Eight EDCA queues (four of the station, four of the access point) and
the management queue; per queue `stop_per_q`, `stop_udp_pkts` and the contention
values; `selected_qnum` and `pkt_cnt` of the TXOP; the network queue of each
interface; `sta_data_block` and `block_ap_queues`.
*Operations.* `core_xmit` queues a packet or stops its interface at the water
mark or the limit; the transmit thread chooses a queue, takes a packet and
restarts the interface when the queue is well below its limit. Scan,
association, key handshake, disconnection, quiet periods and channel switches
block and unblock; `core_wme_update` replaces the weights.
*Hard.* Two flags set at two limits on one side and cleared together on the
other; a TXOP that goes on over management frames and blocks; several owners of
the two block flags.
*Correct if* no interface stays stopped with nothing to restart it, the choice
finds work whenever there is some, and no queue is starved.

### Transmit thread and device buffers (`onebox_core_wlan.c`, `onebox_dev_ops.c`, `onebox_sdio_devops.c`, `wlan_update_buf_status`)

*State.* `sdio_scheduler_event`, `beacon_event`, `buf_status_updated`,
`buffer_full`, `mgmt_buffer_full`, the thread's poll counter.
*Operations.* The thread runs until its queues are empty, blocked, or the
device's buffers are full, polling the buffer status every few packets; it then
waits, without a limit or for a short while. The interrupt handler acknowledges,
reads the status and wakes it.
*Hard.* Events reset against packets queued; flags written by both sides from
values read earlier; failed reads.
*Correct if* nothing is left behind by a thread that waits for ever, and
management frames leave.

### A-MPDU reordering (`wlan/net80211/linux/osi_net80211/src/ieee80211_ht.c`)

*State.* `struct ieee80211_rx_ampdu`: window start, slots, number of frames held.
*Operations.* `ieee80211_ampdu_reorder` for each data frame (with a flush by age),
`ieee80211_recv_bar`, ADDBA, DELBA; on an access point also the age timer.
*Hard.* Numbers wrap modulo 4096; slots are copied down in place; frames come
late, twice or never; the age timer shares no lock with the receive worker.
*Correct if* frames go up in order, once, and none is lost.

### Boot loading (`common_hal/osi/onebox_common_devops.c`, `device_init`, `auto_fw_upgrade` in `onebox_flashing.c`)

*State.* The registers `REGIN` and `REGOUT` of the boot loader, `bl_timer` and
`bl_timer_expired`, the position in `load_fw_thru_sbl`; in the device two
buffers (ping and pong), flash and RAM.
*Operations.* `device_init` waits for the boot loader to announce itself;
`load_fw_thru_sbl` has the image in flash checked, burns a new one chunk by
chunk, or loads one into RAM, and starts it. `bl_cmd` starts the timer, waits
for `REGIN` to be free, writes the command and polls `REGOUT` for the answer.
*Hard.* Each command may time out and be answered later; answers do not name
their commands; a failed command leaves its timer to the caller; `del_timer`
does not wait for the callback; one buffer is burned while the other is filled.
*Correct if* the flash receives the file in order, only a whole image is
started, success means that one was, the timer is neither armed twice nor left
running, and a silent device cannot hold the load up.

### Other parts

| Part | State and operations | Hard behaviour | Status |
|---|---|---|---|
| Receive path (`onebox_common_rx.c`) | deferred queue, dispatch | malformed lengths, frames for absent protocols | dispatch modelled |
| Flash upgrade by frames (`onebox_flashing.c`) | `flash_event`, sectors | answers against timeouts | planned |
| Host interfaces (`intfdep/`) | interrupt status, block transfers | register I/O | probe, disconnect and the buffer-status interrupt modelled |
| WLAN management frames (`onebox_devdep_mgmt.c`) | `fsm_state` bring-up sequence | order of confirms | power-save and block frames modelled, bring-up planned |
| Virtual interfaces (`onebox_core_vap.c`) | vap identifiers, beacons | create / delete against the stack | as power save and the host queues see them |
| Receive descriptors (`onebox_reorder.c`, `onebox_pktpro.c`) | none of their own | — | data only |
| Rate adaptation, ioctls, proc files | parameters | none | data only |
| Bluetooth, ZigBee data paths | none of their own | — | enter as coex queues |
| net80211 | port of the BSD stack | — | the station's transitions that reach the driver, quiet periods, reordering |
| hostapd, wpa_supplicant, utilities, config tool | third party / front ends | — | not modelled |

Most of the repository's lines are the bundled hostapd, wpa_supplicant and
net80211; the driver proper has about 30 000.
`PROJECT.json` lists every part with its files, and every hazard with its line.

## The modules

| Module | Models | Notes |
|---|---|---|
| `TxAccess` | access arbitration and sleep handshake | WLAN thread, coex thread, worker and firmware as processes |
| `MCTxAccess` | instances | |
| `SleepHandshake` | what the sleep handshake promises | abstract: five actions on three variables |
| `TxAccessProofs` | theorems about `TxAccess`, the refinement of `SleepHandshake` included | TLAPS |
| `Assets` | loading, bring-up, removal | loader per protocol, worker, bus driver, firmware |
| `MCAssets` | instances | |
| `AssetsProofs` | theorems about `Assets` | TLAPS |
| `WlanPs` | power-save state machine and its callers | ioctl, timer, data path, transmit thread, worker, 802.11 stack, device |
| `MCWlanPs` | instances | |
| `WlanPsProofs` | theorems about `WlanPs` | TLAPS |
| `TxQueues` | queue numbers and the test for a blocked queue | shared by the next two |
| `WlanQueues` | host queues, WMM contention, flow control, blocking | kernel's transmit calls, transmit thread, 802.11 stack, timers |
| `MCWlanQueues` | instance | |
| `WlanQueuesProofs` | theorems about `WlanQueues` | TLAPS |
| `WlanTx` | transmit thread against the device's buffers | thread, interrupt handler, device, queueing contexts |
| `MCWlanTx` | instance | |
| `WlanTxProofs` | theorems about `WlanTx` | TLAPS |
| `AmpduRx` | A-MPDU reorder buffer of one traffic identifier | receiver; the peer is external |
| `MCAmpduRx` | instance | |
| `AmpduRxProofs` | theorems about `AmpduRx` | TLAPS |
| `BootLoader` | `device_init`, `load_fw_thru_sbl`, upgrade through two buffers | host, kernel timer; the boot loader is external |
| `MCBootLoader` | instances | |
| `BootLoaderProofs` | theorems about `BootLoader` | TLAPS |

Names follow the source: variables are the fields, actions are the functions or,
where a function is interrupted by what others do, its parts in order
(`Check`, `Intend`, `UpdateRequest`, `CheckAgain`, `SetFlag`, `Woken` / `Timeout`
are the head of `core_qos_processor` and of the two branches of
`coex_pkt_processor`). The granularity is the same everywhere: every access to
a field that another context can touch is a step; a section under a lock that
does nothing but assign is one step. A timed wait ends by its condition or, at
any moment, by its timeout. Definitions named `Bug_...` are plausible mistakes
in the code, used to show that a property can fail; no specification uses them.

Where the modules touch, each takes the others in their settled state:
`TxAccess` starts when all card-ready frames are in; `Assets` reduces the
access of WLAN to the one flag `wlan_insert` polls; `WlanPs` assumes access,
`WlanTx` access and an awake device. `WlanQueues` and `WlanTx` are two views of
one thread: the first keeps the choice of the queue and lets the thread give up
whenever it likes (`GiveUp`); the second keeps the reasons for giving up and
lets the choice be any queue with work, which `ChoiceHasWork` of the first
justifies.

**`TxAccess`.** `ImplementsHandshake` maps the firmware's state to `device`,
`common_hal_tx_access` to `access` and an ack in flight to `ack` of the abstract
`SleepHandshake`. The firmware is external: it asks to sleep when awake, sleeps on
an ack, wakes when it likes. `tx_access_lock` is a variable only because the
worker holds it across the wake-up loop of `sleep_entry_recvd`; in
`sleep_exit_recvd` the same loop runs after the release, and clearing the flag
and setting the access are two steps. `transmit_lock` is held exactly while some
thread is at `xmit` or `write`. Packets are counted, not distinguished. Left out
are the queues `coex_get_queue_num` serves before Bluetooth's and ZigBee's
(`VIP_Q`, `COEX_Q`, `WLAN_Q`: their frames are written by the coex thread as the
modelled ones are) and the beacons the worker writes by itself
(`onebox_pktpro.c:262` and `:456`).

**`Assets`.** `At(c, p, point)` says caller `c` (loader or worker) is at `point`
of the insert function of `p`. `PollAccess` is the poll of `wlan_insert`
together with its never-reached limit: `count` is a `uint8`, so `count > 500`
is false whatever its value, and no exit by count exists. ZigBee's and
Bluetooth's differences (no poll, no second look at the card, where the adapter
is freed) are guards on `p`. Removal is two steps, since the deregister frame
goes out (`Remove`) before `fw_state` is reset (`Forget`): a firmware that
announces itself again in between is not heard. `Probe` stands for
`common_hal_init` and `device_init` together; what they wait for is in
`BootLoader`.

**`WlanPs`.** `HandleRequest` and `HandleConfirm` are `pwr_sve_event_handler`,
including its fall-through from the confirm cases into the stable ones, its
refusal during a delay, and the second-vap branch. A handler that sends a wakeup
request sets `PS_STATE` before the frame is queued and is one step. One that
sends a sleep request queues the frame and wakes the transmit thread first: it
goes on holding the lock (`target`, `holder`), the transmit thread, which takes no
lock, does what it likes, and `HandlerEnds` sets the state. `State` is `PS_STATE`
once such a handler is done; the properties speak of it, except `TransitionEnds`,
which speaks of `PS_STATE` itself. The number of vaps is read once per call.
The pending-frame path of the transmit thread is taken apart at each unlocked
access (`TxPending`, `TxStopTimer`, `TxDeepSleep`, `TxWake`).

A connection is set up step by step: AUTH, sent again after its first timeout,
ASSOC, the notification of the peer (which may fail), and with WPA the keys and
the EAPOL4 confirm in either order (`link` is `"handshake"` meanwhile; a key that
fails to load leaves it there). `conn_in_prog` is cleared by the notification or
the EAPOL4 confirm, `CONNECTED_PATH` is called when both are there, as a step of
its own (`link = "connected"`): others may come in between. Pairwise and group key
are one flag. Traffic load is left to chance: any packet may be the one that
takes the load over its threshold and any expiry of the timer may find it below.
Two simplifications: a call of `CONNECTED_PATH` ends before the station can join
again, and an EAPOL4 confirm of an earlier connection does not come late. A
deauthentication that takes a connected station back to AUTH or ASSOC is not
modelled.

**`WlanQueues`.** `core_determine_hal_queue` keeps the code's three branches
(management frame, rest of a TXOP, contention) and the second round of the
contention when the first finds an empty queue; `Winner` and `CountDown` are its
loops. `core_xmit`, the choice and the restart are single steps although they run
in different contexts: each decides by comparing a queue length with a limit,
and the limits lie a reserve of 500 packets apart; `core_wme_update`, which takes
no lock either, is one step as well. While the station joins with WPA,
`core_xmit` neither stops the interface nor refuses a packet
(`onebox_core_os_intf.c:808`), so the station's queues have no limit then;
`MaxJoin`, above `MaxLen`, bounds the model only. The weights an access
point's parameters lead to are a constant. `unresumed` is a history variable: a
quiet period or channel switch ended and nothing has started the station's
interface since.

**`WlanTx`.** `Select`, `ReadRegister`, `ApplyStatus`, `Dequeue` and `Send` are
the body of `core_qos_processor`; `BreakForBeacon` and
`wlan_thread_waiting_for_event` its exits; the handler's acknowledge, read, mark
and flag updates are steps of their own. The device raises its interrupt when a
full buffer becomes free. With `Faults` every read of the register may fail;
`missed` records that the handler's did.

**`AmpduRx`.** The agreement is that of a station with its access point: the receive
worker alone works on it, and each handler is one step. On an access point the
age timer works on it too, without a common lock, and `SlotsMatchWindow` does not
hold (see below). The peer numbers its frames 0, 1, 2 and so on; the receiver sees
numbers modulo `SEQ_RANGE`. What the peer has outstanding arrives in any order,
any number of times, or not; acks may be lost, old copies and BARs may come
late. Four history variables say what the receiver cannot: the `last` frame
passed up, whether all went up `inOrder`, which are `waiting`, and whether the
order is `excused` (a flush by age, whose comment accepts that it pushes frames
out early, or a window smaller than what the peer uses), until the next ADDBA.

**`BootLoader`.** `stage` is the label of `load_fw_thru_sbl` (with the steps of
`auto_fw_upgrade` and `load_ta_instructions` that can fail as labels of their
own), `pc` the point within the command; `OnSuccess` and `OnFailure` are the
`goto`s. An image is the sequence of its units, so that a chunk left out,
repeated or overwritten shows in what was `burned`. The timer is two-staged: it
fires, which makes it no longer pending, and then its callback runs, at any
later time. A register in which the boot loader answers also records, for the
properties only, which command the answer is to. The boot loader takes a
command when it likes, or never, answers once, and burns a filled buffer before
it offers it again. `unanswered` is a history variable: the check of the image
was given up and not answered `CMD_FAIL`.

## The runs

Bounds are the constants of the `.cfg` files.

| Run | Instance | Properties | Result |
|---|---|---|---|
| `tx_access` | WLAN, Bluetooth, acks may fail, fair | `TypeOK`, `AsleepMeansNoAccess`, `AckAnswersRequest`, `RegisteredWlanWriteIsAwake`, `RequestNotForgotten`, `ImplementsHandshake`, `RequestServed`, `AccessComesBack` | hold |
| `tx_access_xmit` | WLAN, Bluetooth | `NoXmitWithoutAccess` | violated |
| `assets_races` | WLAN, ZigBee, unload and unplug | `TypeOK`, `NoLostActivation` | hold |
| `assets_alone` | WLAN-only image, failing inserts, fair | `SingleInsert`, `BringUpEnds` | hold |
| `assets_hang` | WLAN and Bluetooth image, fair | `BringUpEnds` | violated |
| `wlan_ps_requests` | USB, two profiles (one by traffic), lost handshakes, failures | `RequestMatchesState`, `MonitoringGoesOn` | hold |
| `wlan_ps_usb` | USB, one profile, second vap, fair | `TypeOK`, `StateMatchesDevice`, `TransitionEnds`, `MgmtFrameLeaves`, `DelayEnds` | hold |
| `wlan_ps_sdio` | SDIO, fair | `TransitionEnds` | violated |
| `wlan_queues` | station and access point, two sets of weights | `TypeOK`, `InterfaceComesBack`, `ChoiceHasWork`, `NoStarvation` | hold |
| `wlan_tx` | two queues, failing reads, fair | `TypeOK`, `NothingLeftBehind`, `MgmtFrameSent` | hold |
| `ampdu_rx` | 16 sequence numbers, windows of 2 and 4 | `TypeOK`, `SlotsMatchWindow`, `InOrderOnce`, `NothingLost`, `WindowMovesForward` | hold |
| `boot_load` | all modes, two sizes, failures, fair | `TypeOK`, `ImageInOrder`, `AnswerFitsCommand`, `RunsGoodImage`, `SuccessMeansLoaded`, `TimerStopped`, `TimerArmedOnce`, `LoadEnds` | hold |

`RequestNotForgotten`, `RequestServed` and `AccessComesBack` except a lost ack
(`AckLost`: the code counts it as sent, or has withdrawn the access already, and
does not repeat it).
`SingleInsert` is stated without unloading and unplugging: both change
`drv_state` under an insert in progress (see the hazards). `NoLostActivation`
is stated without failing inserts, after which the code leaves the protocol
down. `TypeOK` of `Assets` also says who may hold an init lock. That access opens
only after the last card-ready frame is no property: in the first life of a card
one branch of `onebox_update_common_hal_tx_access` sets both, and afterwards it
does not hold (below).
`RequestMatchesState` and `StateMatchesDevice` are stated for users who do not
switch power save off, `TransitionEnds` except when the transmit thread was faster
than the handler (`Overtaken`, below), and without failing allocations, after
which nobody repeats the request. `MonitoringGoesOn` is stated for connections
with their keys loaded, since `CONNECTED_PATH` is not called before, and holds
for one vap: while a second one exists the timer is not restarted, and its removal
does not restart it either. `DelayEnds` is checked without lost handshakes
(below).
`NothingLeftBehind` and `MgmtFrameSent` except a failed read of the buffer
status: the loop ends and the code does not repeat it. `NothingLeftBehind` also
excepts what waits behind a blocked queue that was chosen last: the code ends
its loop there and relies on the next event. A round that chose nothing excuses
no packet. `InterfaceComesBack` excepts the
station after a quiet period (`unresumed`, below). `AnswerFitsCommand` and
`RunsGoodImage` except a load whose check of the image was `unanswered` (below),
`TimerStopped` only the return of `device_init` from the failed read of its own
loop.

*Why the bounds suffice.*
`MaxPkts = 1`: threads only distinguish an empty queue from a non-empty one,
and a new packet may arrive at every step, so longer queues only repeat the
loop. One token: the handshake allows one request at a time, and a stale token
would show as `InvalidToken`, which sleep exit stores between any two requests.
Two protocols: the coex thread treats Bluetooth and ZigBee alike, except that
ZigBee never releases; the safety properties are proved for every set of
protocols.
`MaxFrames = 2`: an image has at most two protocols, each of which announces
itself after the probe and again only after it was told to deregister.
`MaxProbes = 1`: what one life of a card can do. `MaxMgmt = 1` frame of the stack
waits at a time; the driver's own requests queue besides it; the transmit thread looks only at the kind of the
frame in its hands. Two power-save profiles: the code distinguishes whether
power save is on, whether traffic is monitored, and whether new parameters
differ from old.
`wlan_queues`: voice of the station and best effort of the access point, so that
there is one queue with TXOP bursts, one without, and one per interface. Limits
4 / 3, a reserve of 2 and 5 packets while joining keep the order of the real ones (1000 / 600 to
5500 / 4500, reserve 500) and leave room on both sides of each. Two weight
functions, one of them with equal weights, give ties and changes in mid-contention.
`wlan_tx`: a poll every 2 packets makes both a packet with and one without a poll;
one queue of each interface, so that either may be the blocked one; one packet
per queue, because the thread only asks whether a queue is empty.
`ampdu_rx`: 18 frames over 16 numbers, so the numbers wrap and a copy of frame 0
meets frame 16; a window of 4 for the peer's 4, and of 2 to explore the one that
is too small.
`boot_load`: chunks of 2 units and images of 4 and 5, so that there is a last
chunk of length zero and one with a rest, and the third chunk uses the buffer
of the first again.

Deadlock is checked in `TxAccess` and `WlanPs`, whose processes never end. In
`Assets` it is not: when the modules are loaded, or the card is gone for the
last time the bound allows, the system rests. Nor in `WlanTx`, whose thread may
rest after a failed read with all queues at their bound, nor in `AmpduRx`, which
ends with the last frame number, nor in `BootLoader`, where a load ends. In `WlanQueues` it is checked.

## Fairness

*`TxAccess`.* Weak fairness for each thread, the worker, and the firmware's
falling asleep and waking: kernel contexts that block only on an event, a lock
held for a bounded section, or a timed wait. A thread in its wait for an event runs
on only if its event is set (`Running`): WLAN's wait has no time limit, so a wake-up
without a packet may happen and is never relied upon. WLAN's release is fair only with
an empty queue, since a thread that always finds a packet never releases.
The firmware is not obliged to ask to sleep and users are not obliged to send.
*`Assets`.* Loader, worker and bus driver go on once started; the firmware
announces each protocol. Loading, unloading, plugging are free.
*`WlanPs`.* A handler comes to its end, the transmit thread and the receive worker
run on, the timer expires, the device answers; a connection attempt gets ahead
(`AttemptStep`), because each of its frames has a timeout and the key handshake is
completed or given up by the supplicant. It is strongly fair because the bound
`MaxMgmt` may disable it now and then. Scans, user and traffic are free.
*`WlanTx`.* The thread, the interrupt handler and the device's emptying of its
buffers are weakly fair. `Select` is strongly fair: a beacon event that is set
makes the thread break instead of choosing, but beacons come about every 100 ms
and not each time the thread gets there. Nothing obliges the register to be
readable.
*`BootLoader`.* The host runs and the kernel's timer expires and calls back. No
failing access is obliged to end a polling loop (`Polling`), and the device is
under no obligation: `LoadEnds` holds against a silent one, because of the timer.
*`WlanQueues`, `AmpduRx`.* Safety only. `NoStarvation` states progress of the
contention as an action property: each contention a queue loses brings it closer
to winning one, by a measure in the natural numbers.

## The proofs

Every invariant and action property of the passing runs is also a theorem. A
theorem speaks of every value of the constants that the module's `ASSUME`s
allow; where a property does not hold in general, the theorem says under which
condition it does, and the code breaks it otherwise. In each module one
inductive invariant carries the rest; the invariants were first checked with TLC
on the instances of the runs.

### `TxAccessProofs`

`TxAccessProofs` proves, for every set of protocols, every set with power save,
every set of tokens, any queue bound, with or without failing acks:

| Theorem | Property |
|---|---|
| `IInvInvariant` | `IInv` |
| `TypeCorrect` | `TypeOK` |
| `NoAccessWhileAsleep` | `AsleepMeansNoAccess` |
| `OneAckPerRequest` | `AckAnswersRequest` |
| `RegisteredWriteSafe` | `RegisteredWlanWriteIsAwake` |
| `NoRequestForgotten` | `RequestNotForgotten` |
| `HandshakeRefinement` | `ImplementsHandshake` |

Assumptions: the four `ASSUME`s of `TxAccess` (protocols among the three
identifiers, at least one; a natural bound; tokens differ from the two markers;
`Faults` is Boolean).

None of the properties is inductive by itself. `AsleepMeansNoAccess` needs to
know that a sleep-exit frame still under way is what will open the access, that
an entry frame cannot be behind another entry, and so on. `IInv` therefore lists
the seven *phases* of the handshake (`HandshakePhases`): quiet, exit frame under
way, new request behind an exit frame, entry frame under way, request open,
request answered, asleep. Each fixes the three flags, the frames in both
directions and the position of the worker, and says nothing of the threads. A
step of a thread stays in its phase, except for the release that answers an
open request; a step of the worker or firmware moves to a neighbour.
`ThreadInv` adds what makes the unlocked test of `send_pkt_to_coex` safe: a WLAN
thread past it, with its intention announced, still finds the access open,
because only an ack closes it and no ack is sent over an intention. `GrantInv`
keeps the loop index in range. `OpenRequestInv` is the part about forgetting: an
open request without an intention has a thread between `tx_intention = 0` and
its `update_tx_status`.

The proof has one step per action, each split by phase or by conjunct; `PTL`
combines it with the initial states. `IInv` also passes as
an invariant of the instance of `tx_access`. The refinement follows from the same phases: in
each of them the three abstract variables are fixed, so a step of a thread is a
stutter or `Answer`, and the others are `Request`, `Sleep`, `Wake`, `Restore` or
a stutter.

### `WlanQueuesProofs`

For every set of queues among the eight, all weights from 1 to 255, all bursts
and all limits with `0 < Reserve < WaterMark < MaxLen`, which the code's
(background 1000 / 600, best effort 3500 / 3200, video 4800 / 3900, voice
5500 / 4500, reserve 500) satisfy:

| Theorem | Property |
|---|---|
| `IInvInductive` | `IInv`, the inductive invariant |
| `TypeCorrect` | `TypeOK` |
| `InterfacesComeBack` | `InterfaceComesBack` |
| `ChoicesHaveWork` | `ChoiceHasWork` |
| `NobodyStarves` | `NoStarvation` |

`IInv` adds four things to `TypeOK`. `ChosenInv`: what the thread chose is still
there when it dequeues, because only it takes packets out. `TxopInv`: the packets
left of a TXOP are in their queue, for the same reason. `FlowInv`: `stop_per_q`
is never set without `stop_udp_pkts` and does not outlive the last packet of its
queue; this is what makes the joint clearing in the thread sufficient.
`RestartInv`: a stopped interface has a packet to restart it, for a station that
waits for its keys even while it is blocked, since the end of the handshake
removes the block without a start.

`NobodyStarves` rests on two lemmas about the contention: the winner contends
and has the least weight (`WinnerContends`, an eight-step search over the queue
numbers written out, as induction is not available), and each loser's weight
falls by the winner's.

### `BootLoaderProofs`

For every set of modes, all sizes and chunk sizes, with or without failures:

| Theorem | Property |
|---|---|
| `TimerInvariant` | `TimerInv`, an inductive invariant |
| `NoTimerLeft` | `TimerStopped` |
| `NoDoubleArm` | `TimerArmedOnce` |
| `LoadInvariant` | `IInv`, the inductive invariant of the rest |
| `TypeCorrect` | `TypeOK` |
| `BurnsInOrder` | `ImageInOrder` |
| `NoStaleAnswer` | `AnswerFitsCommand` |
| `StartsGoodImage` | `RunsGoodImage` |
| `SuccessIsLoaded` | `SuccessMeansLoaded` |

Assumption: `BootAssumption` (sizes and chunk are positive).

`bl_cmd` does not stop the timer of a command that failed; `ping_pong_write`,
`auto_fw_upgrade` and the CRC check do, and the others rely on the label `fail`.
`TimerInv` says where that leaves a pending timer: in a wait, or on the way to
`fail`, which only modes with a boot loader reach with a timer. The proof goes
through the `goto`s once (`SuccessStage`, `FailureStage`) and then step by
step.

`AnswerFitsCommand` is about two registers and a device that takes its time, so
`DialogueInv` says what they hold. In the normal course, before a command is
written nothing of an earlier one is under way (`Clean`), and after it only the
command itself or its answer (`Own`). Two paths leave this course: the check of
the image that was given up (`unanswered`) and the end of a failed upgrade. For
them `MayRemain` bounds what is still under way; the second one does no harm
because no remaining answer is the one its only command waits for. The exception
inside the normal course is `Refusal`: when writing over the refused check
failed, `CMD_FAIL` is still in the register at `FW_UPGRADE`, which does not wait
for it.

`ImageInOrder` needs to know which of the two buffers the device is burning.
`Handed(k)`: the first `k` chunks were handed over, and are all burned, or the
last of them is being burned out of its buffer. `BurnInv` places `Handed(kk)` or
`Handed(kk + 1)` at each stage, and `Filled` says that a chunk that is announced
is in its buffer. The lemmas `Division`, `ChunkEnd`, `FirstChunk`, `LastChunk`
and `BurnStep` do the arithmetic of a file whose size may or may not be a
multiple of the chunk.

`StartInv` collects the places at which the host takes the image in flash to be
good (`Trusts`), from the accepted answer to the command that starts it.

### `AssetsProofs`

For every set of protocols, every firmware image, any number of frames and
probes:

| Theorem | Property | Under |
|---|---|---|
| `BaseInvariant` | `BaseInv`, an inductive invariant | |
| `TypeCorrect` | `TypeOK` | |
| `ActivationNotLost` | `NoLostActivation` | first probe, no failing insert |
| `OneInsert` | `SingleInsert` | no unloading, no unplugging |

Assumptions: `TechsAssumption`, `BoundAssumption`, `FlagsAssumption`. The
conditions are where the code stops keeping its promise: unplugging resets the
access never and `fw_state` not for a module that is not active (see the disagreements below), a failed insert leaves
the protocol down, and unloading or unplugging changes `drv_state` under an
insert that is in progress. `TypeCorrect` includes that an init lock is held only
by a caller inside the insert function.

`NoLostActivation` is a race without a lock: the loader writes `drv_state` and
the hooks and then reads `fw_state`, the worker writes `fw_state` and then reads
the other two. `HandoverInv` is the argument: at every point behind its writes
the loader's part is visible, and a loaded module with its firmware up that is
not active is in the hands of the worker, which is handling its card-ready frame.
It needs `BeforeProbe`, since before the first probe nobody may be in an insert
function. For `SingleInsert`, `InsertInv` ties each caller behind the test to the
init lock and to a module that is not active, and each adapter to an active
module.

### `WlanPsProofs`

For every set of profiles and any number of frames:

| Theorem | Property | Under |
|---|---|---|
| `TypeCorrect` | `TypeOK` | |
| `RequestInvariant` | `RequestInv`, the inductive invariant of the next two | USB, power save not switched off |
| `OneRequest` | `RequestMatchesState` | the same |
| `DeviceAgrees` | `StateMatchesDevice` | the same |
| `MonitoringNotLost` | `MonitoringGoesOn` | one vap |

Assumptions: `ProfileAssumption`, `FlagAssumption`, `BoundAssumption`. On SDIO
the frame is written before the state changes, so the confirm can overtake it
(run `wlan_ps_sdio`); a profile that switches power save off meets the call at
`onebox_ps.c:668`; a second vap stops the monitoring for good.

`RequestInv` refines `RequestMatchesState` by the place of the request:
`PlaceInv` says that it is in the queue, in the hands of the transmit thread, on
its way to the device or answered, at exactly one of these, whatever the transmit
thread does before the handler has set the state. `LockInv` is why this is
harmless: only a sleep request leaves the state for later, and it leaves a
stable one, so an unexpected confirm finds a state that ignores it; what remains
is `PS_EN_REQ_QUEUED` with nothing under way. `MarkInv`: the transmit thread marks
for power-save frames only. `DeviceInv` gives the device's side; `UpdateInv` keeps
parameters that wait to be applied within the profiles. The handler
`pwr_sve_event_handler` is treated once, branch by branch (`HandlerBranches`,
`Asks`, `Answers`), and its callers then by what they pass.

`MonitoringGoesOn` needs to know what a connection being set up may do to the
timer (`StationInv`, `TimerInv`), and that the transmit thread, which stops it
for a station that is not connected, cannot be overtaken by a connection before
it dequeues (`ThreadInv`): the peer's answer waits for the frame still queued. After
a call of the handler power save is off only if the decision is delayed
(`HandlerDecides`), after a confirm only with the timer started
(`ConfirmMonitors`).

### `WlanTxProofs`

For every set of queues, all bounds and any polling interval, with failing
reads:

| Theorem | Property |
|---|---|
| `IInvInvariant` | `IInv`, the inductive invariant |
| `TypeCorrect` | `TypeOK` |
| `NoPacketLeftBehind` | `NothingLeftBehind` |

Assumption: `ConstantsAssumption`.

The thread and the handler read the same register and write the same flags, so
what either of them read may be old when it is used. `HandlerInv` and `ReadInv`
say of both reads that they are current or that a later interrupt or event
repairs them. `FullInv`: since the last poll `mgmt_buffer_full` was set by the
handler alone, so its end will be announced; before the next poll it may be
stale, which is why the invariant speaks of some program points only.
`ChosenInv`: nobody else dequeues what the thread chose. `WaitInv` gives for
each way out of the loop the reason why the thread may wait.

### `AmpduRxProofs`

For every range of sequence numbers, every window and any number of frames:

| Theorem | Property |
|---|---|
| `BufferInvariant` | `Inv`, the inductive invariant |
| `TypeCorrect` | `TypeOK` |
| `SlotsMatch` | `SlotsMatchWindow` |
| `PassedUpInOrder` | `InOrderOnce` |
| `NoFrameLost` | `NothingLost` |
| `WindowForward` | `WindowMovesForward` |

Assumption: `WindowAssumption`, the windows of receiver and peer together are
at most half of the sequence numbers (in the code `rxa_wnd` is at most 16, the
peer is granted a `uint8_t`, and half of the numbers is 2048).

The code computes with remainders, the properties are about frames. `Inv` says
that during an agreement there is a frame `S` the window starts at: slot `i`
holds frame `S + i` or nothing (`At`), the peer's frames are less than half of
the range away from `S` (`PeerAt`), and, unless the order was cut, all frames
before `S` have arrived and been passed up and all that arrived since wait in
their slots (`HistoryAt`). Under `PeerAt` the comparisons of the code decide as
if the numbers did not wrap (`SeqSubForward`, `SeqSubBackward`, `SeqShift`,
`BaBeforeExact`). `Moved` is the contract of every function that moves the
window, from `S` to `T`: no frame disappears, what lies before `T` was passed up
in order, and what was passed over had arrived or is older than the BAR says.
It is proved for `ampdu_rx_dispatch`, `ampdu_rx_flush_upto`, the loops of
`ieee80211_ampdu_reorder` and for `ieee80211_recv_bar` (the lemmas named
`...Contract`), and composed (`MovedTwice`). `PositionStep` and `HistoryStep`
derive `Inv` from it; `NextStep` goes through the actions.

`SlotsMatchWindow`, `TypeOK` and `WindowMovesForward` hold whatever the flushes
by age and the windows; `InOrderOnce` and `NothingLost` except, as the
properties say (`excused`), what follows a flush by age or an agreement with a
window below the peer's.

### What is only model-checked

The liveness properties `RequestServed`, `AccessComesBack`, `BringUpEnds`,
`TransitionEnds`, `MgmtFrameLeaves`, `DelayEnds`, `MgmtFrameSent` and `LoadEnds`,
since fairness and `ENABLED` are out of the prover's reach.

## Where the code disagrees with its own words

Each is a run that ends in a counterexample, with the quotation in
`PROJECT.json` under `findings`.

1. `tx_access_xmit`, `NoXmitWithoutAccess` — the case that `send_pkt_to_coex`
   answers with a stack dump happens. A wait that times out leaves its flag set;
   the next sleep exit turns the flag into `tx_access = 1` for a thread that has
   dropped its intention; the next sleep request is acked over that access.
2. `assets_hang`, `BringUpEnds` — the worker polls for access inside
   `wlan_insert` while the Bluetooth card-ready frame that would open it waits
   behind the worker; the poll's limit of 500 does not fit its `uint8`.
3. `wlan_ps_sdio`, `TransitionEnds` — writing before marking, which the comment
   says was observed to go wrong, was repaired for USB only.

### Further disagreements

Met with TLC while the models were built, without a run of their own:

* `onebox_common_pwr_mngr.c:164` says "checks if all active protocols have
  tx_access"; `protocol_tx_access` tests `tx_intention`. A protocol between the
  two assignments of its release still has `tx_access` when the ack goes out
  (`AckInFlight => \A p : ~tx_access[p]` fails in `TxAccess`).
* `onebox_core_wlan.c:49` sets `deregister_flags` after the refused request and
  outside the lock. A sleep exit in between is missed: the thread waits 6 s
  (3 s for Bluetooth and ZigBee) for access the common HAL already has, and
  reports that it "is not granted from Common Hal" (`:57`).
* `onebox_common_rx.c:636` says "At this point we recvd all protocol's card
  ready and give tx_access"; after a second probe `common_hal_tx_access` is
  still set from the first, before any card-ready frame (with `MaxProbes = 2`).
* `onebox_core_wlan.c:225` says of the confirm that comes before the state is
  changed: "Hence writing the packet after state is changed in USB case". The state
  the transmit thread changes is set by the handler after it has queued the frame
  and woken the thread (`onebox_ps.c:504` or `onebox_devdep_mgmt.c:2181`, against
  `onebox_ps.c:711`, `:719`, `:730`): a thread that is faster finds nothing to
  change, the confirm finds the old state, and `PS_EN_REQ_QUEUED` is set for good
  (`TransitionEnds` fails without `Overtaken`, on USB).
* `onebox_devdep_mgmt.c:2694` and the returns before it: a key that cannot be loaded
  leaves the station connected without `CONNECTED_PATH`, so power save by traffic
  does not start (`MonitoringGoesOn` fails without `link # "handshake"`).
* `onebox_wlan_osd_init.c:617` sends the deregister frame before `:629` resets
  `fw_state`: a card-ready frame that answers it at once is taken for data, and the
  protocol stays inactive when it is loaded again.
* `onebox_ps.c:555`: "Initial timer need to expire, so wait until timer
  expires". A connection lost before its key handshake ends leaves
  `conn_in_prog` set, the callback returns at `:318`, and the delay stays
  (`DelayEnds` fails with `HandshakeLoss = TRUE`).
* `onebox_core_vap.c:720`: "Disabling Power save as multi vap is enabled".
  `VAP_CREATE_PATH` ends in the default case "Invalid Path" of
  `update_pwr_save_status`; a sleeping device stays asleep.
* `onebox_ps.c:600` prints "Repeat loop" and sets `loop = 1`, but the case falls
  through into `:607`, which breaks with `loop = 0`: parameters set while a
  sleep request is under way are not applied (`update_ta` stays set although
  the station remains connected and idle).

* `onebox_bt_osd_init.c:98` says that `bt_insert` "is triggered whenever BT module
  is inserted". After a second probe `fw_state` of the card's former life makes the
  new card-ready frame look like data, and a protocol that is loaded is not
  inserted (`NoLostActivation` fails with `MaxProbes = 2`).
* `onebox_ps.c:666` says "Send_disable;" above a call (`:668`) that sends what its caller
  asked for, which may be the opposite (`RequestMatchesState` fails if a profile
  switches power save off).
* `ieee80211_proto.c:1710` says of the end of a channel switch that "each VAP is
  placed back in the RUN state and can thus transmit". The unblocking
  (`onebox_devdep_mgmt.c:2055`) starts the interfaces of access points only; the
  station's stays stopped unless a packet is still queued (`InterfaceComesBack`
  fails without `unresumed`).
* `onebox_core_wlan.c:102` blocks the access point's queues with
  `q_num > NO_STA_DATA_QUEUES`, which leaves out `BK_Q_AP`.
* `ieee80211_ht.c:931` passes up the new frame on a flush by age and moves the
  window past it, whatever its slot: if the slot held a copy, the frame goes up
  twice (`InOrderOnce` fails if `excused` is not set there).
* `ieee80211_ht.c:649`, on an access point: between the look at a slot and its
  clearing (`:652`), or the two of `:694`, the age timer (`ieee80211_ht_node_age`, called from
  `ieee80211_node.c:2184` under the node lock only) can take the same frame, which
  is passed up twice, and `rxa_qframes` drops twice; the receive worker holds
  `ic_lock_vap` only (`onebox_reorder.c:25`). Read in the code, not modelled.
* `ieee80211_ht.c:1986` grants the peer `aggr_rx_limit` while it reorders with
  `rxa_wnd`: a peer that uses what it was granted drives the window past frames
  it still repeats (`NothingLost` fails with a window below `PeerWindow`).

* `onebox_common_devops.c:381` says "Loading the TA firmware includes verifying CRC,
  upgrade fw if CRC fails". Only the answer `CMD_FAIL` leads to the upgrade
  (`:460`): a check that is not answered before its timer expires, or whose
  registers cannot be accessed, goes the way of a passed one, prints "CRC
  Pass..Issuing Polling Command" (`:468`), and the image in flash is started
  unchecked (`RunsGoodImage` fails without `unanswered`).
* `onebox_common_init.c:363` returns from a failed read with the timer running,
  although the adapter it lies in is freed after a failed probe (`TimerStopped`
  fails without its exception).

## What is not modelled

`GPIO_HANDSHAKE` (not compiled in by default), roaming, the firmware beyond its
frames, memory and life times of adapters (a protocol owns one or not), the
contents of frames, bus errors other than a failed write or register read where
the code looks at the result. In the transmit path: multicast frames held back
for DTIM (`rv_mcastq`), the loss of queued packets when a vap is deleted,
descriptor errors in the preparation of a packet, and the USB variant of the
buffer status; the semi-full flag is a free choice between a poll after one packet
and one after `PollEvery`. In reordering: fragments, the age timer of an access point,
and what the driver does to a frame before net80211 sees it. In boot loading:
`skip_fw_load`, the checksum itself, the blocks of one transfer, flashing by
frames. The parts without a
module are in the table above with the reason in `PROJECT.json`.

## Plan

In order:

1. `WlanMgmtFsm`: `fsm_state` from boot parameters to `FSM_MAC_INIT_DONE`,
   against late or repeated confirms; `FlashFsm`.
2. Life times in `Assets`: no frame delivered to a freed adapter; the hazards
   noted there without a property.
3. `RxDeframe`: extraction of frames from a transfer.
4. Composition of `Assets` and `TxAccess`: unloading a protocol that holds its
   intention.
5. Proofs about the modules of points 1 to 4 as they come, and the steps of the
   liveness arguments that are safety: what each fair action leads to
   from the inductive invariants above.
