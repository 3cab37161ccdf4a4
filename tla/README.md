# wcn36xx in TLA+

A model of the wcn36xx mac80211 driver: the TLA+ modules translate the C
source, TLC checks them on small instances, and TLAPS proves the theorems of
the `...Proofs` modules for every value of their constants. `PROJECT.json` maps
each definition to the lines it models and lists the runs, the hazards and the
theorems.

## The system

wcn36xx drives a WLAN core that shares memory with the host. Frames go over
DMA rings ("DXE"), control goes over a message channel ("SMD"), and mac80211
calls the driver from several contexts at once.

| part | state | operations | contexts | what makes it correct |
|---|---|---|---|---|
| TX path (`txrx.c`, `dxe.c`) | two rings of control blocks and descriptors, head, tail, `tx_ack_skb`, `queues_stopped` | `wcn36xx_tx` → `start_tx` → `dxe_tx_frame`; reaping; TX status | softirq of mac80211, TX interrupt, indication worker, DMA engine | descriptors stay in pairs, a slot has one owner, frames come back once and after the chip is done, stopped queues are woken |
| RX path (`dxe.c`, `txrx.c`) | two rings of buffers | refill and deliver | RX interrupt, DMA engine | no buffer of mac80211 is written, packets keep their order, none stays behind |
| SMD (`smd.c`, `wcn36xx_msm/main.c`) | `hal_mutex`, `hal_buf`, `hal_rsp_compl`, indication queue, two work items | some 40 commands of one shape, `load_nv` of several exchanges, responses, indications | callers of mac80211 and debugfs, platform worker, indication worker, firmware | commands one after another, each with its own response; everything queued is handled, in order |
| Station mode (`main.c`, `smd.c`) | `wcn36xx_vif`, `wcn36xx_sta`, the firmware's BSS, station and key tables | connection callbacks, scans, channel, multicast filter, RTS threshold, suspend | mac80211's callbacks, its work items, debugfs | indices and key flags agree with the firmware; nothing outlives a connection or a scan |
| AP and mesh mode (`main.c`, `smd.c`, `txrx.c`) | the same, beacon template, a `wcn36xx_sta` per peer | beacon changes, peers, keys, the indices in a frame's BD | mac80211's callbacks, the TX path | a frame names its peer's entry, rates and key; the beacon template is whole; switching off leaves nothing |
| Block ack (`txrx.c`, `main.c`, `smd.c`) | `ampdu_state` per TID, `non_agg_frame_ct` | `tx_start_ampdu`, `ampdu_action`, four commands | the TX path, mac80211's workers | the state says whether a session is coming or running; the firmware has the sessions that run |
| Power save (`pmc.c`, `debug.c`) | `pw_state` | enter and exit BMPS, keep-alive | mac80211, debugfs | `pw_state` says whether the chip sleeps |
| Start and stop, probe and remove (`main.c`, `dxe.c`, `smd.c`, `wcn36xx_msm/main.c`) | pools, control blocks, `hal_buf`, interrupts, workqueues, channel, NV file, registers | probe and remove; `wcn36xx_start` with unwinding, `wcn36xx_stop`, NV download, capability exchange | callers, interrupts, SMD worker | each resource released once, none while in use, none left |
| Pure computations | | allowed rates, beacon padding, NV fragments | | they agree with a reference definition |

How they interact: every callback of *Station mode*, *AP mode*, *Block ack* and
*Start and stop* is a sequence of *SMD* commands; an indication that *SMD*
delivers ends a wait of the *TX path*; *Power save* decides whether the *TX path*
rings the doorbell or signals over SMSM; *Start and stop* owns the memory all
others use. They share `struct wcn36xx` with few locks: `hal_mutex` for
commands, `hal_ind_mutex` for the indication queue, `dxe_lock` for `tx_ack_skb`
alone, `ampdu_lock` for `ampdu_state`, and one `skb_lock` per control block.

Hard to test, and what the properties are for: the head of a TX ring has no
lock of its own; the reaper and the sender meet in one slot; stop and wake are
two writes each; a response may come after its timeout; a work item that is
queued twice runs once; commands fail in the middle of a callback that ignores
it; a work item of mac80211 uses an index that a callback is about to change;
start fails anywhere with a handler running. The `hazards` of `PROJECT.json`
list them line by line.

## Modules

| module | models |
|---|---|
| `TxRing` | the TX path: senders on `Cpus`, the interrupt handler that preempts one of them, the indication worker, the DMA engine, BMPS as far as the doorbell sees it |
| `TxFifo` | what the TX path promises: a queue per channel, transmitted in order, frames given back after that. `TxRing` implements it (`ImplementsFifo`) |
| `RxRing` | one RX ring, the RX interrupt and the engine |
| `Smd` | commands, the SMD channel, `smd_work`, `rsp_process`, the indication queue and `hal_ind_work` |
| `Station` | an interface in station mode: callbacks, work items, debugfs, their commands and the firmware's tables |
| `AccessPoint` | an interface that beacons: callbacks, commands, templates, rates, the indices in a BD |
| `Ampdu` | block ack with one station |
| `Lifecycle` | probe, start, stop, remove and the users of their resources |
| `MCTxRing`, `MCSmd`, `MCAccessPoint` | instances for TLC; the other modules need none |
| `TxRingProofs`, `RxRingProofs`, `SmdProofs`, `SmdOrderProofs`, `AmpduProofs`, `LifecycleProofs`, `StationProofs`, `AccessPointProofs` | theorems |

### TxRing

`head`, `tail`, `skb`, `ctrl` and `src` are the fields of the same names in the
C structures (`ctrl` reduced to the VALID bit and the kind of descriptor, `src`
to the frame the address maps to), and `bd` says for which frame a BD buffer was
filled. A sender is a program counter, a frame and its local `ctl`. One action
is one access to shared state: `TxStart` (clear and fill the BD), `TxClaim`
(`tx_ack_skb` under `dxe_lock`), `TxStopForAck`, `TxCheck` and `TxFull` (two
writes under `skb_lock`), `TxWriteBd`, `TxSetSkb`, `TxMap` and `TxLen` (each
reads `ctl->skb` again), `TxValid`, `TxAdvance`, `TxDoorbell`. The handler is
`IrqEnter`, `IrqChannel`, `ReapSlot` (VALID is read), `ReapTake` (the frame is
read and freed), `ReapWake`, `ReapWakeQueues`, `ReapClear`; its CPU runs nothing
else meanwhile. Memory is sequentially consistent: `writel` orders what comes
before the doorbell, but the stores to a descriptor have no barrier between
them, and their reordering is not modelled.

The engine is external: it takes each valid descriptor in ring order, alone,
clears VALID, raises the interrupt after a frame's descriptor, and stops at a
descriptor that is not valid until the channel is enabled again (`dxe.h:200`,
"0 = DMA stop, 1 = DMA continue with this descriptor"). So a running engine may
take a BD whose frame is not there yet.

Nothing in the code keeps two contexts off one pair of descriptors, and where
they meet the driver goes wrong: run `tx_half` shows it on one CPU, for the
sender and the handler that preempts it; on two CPUs the same can happen at the
slot at the tail of an empty ring (dxe.c:356), and two senders of one ring take
the same control blocks (dxe.c:603). The variable `torn`, which no action reads, records that they
have met. It is set when a sender passes the check while another builds in the
same ring, when the reaper finds not valid a slot whose frame a sender has
stored and not yet made valid, and when a sender stores its frame into a slot
the reaper has found not valid and is about to look into. What the properties
say until then holds on any number of CPUs and with any number of senders; what
they say whatever happens is `TypeOK`, `PairsKept` and `FreedOnce`.

`SerialTx` says that mac80211 has at most one frame per ring in `wcn36xx_tx`.
For the driver's four queues onto one low ring that is an assumption, not
something the code secures. It is FALSE in `tx_smp`, and TRUE where there is one CPU, which makes `tx_half`
and `tx_refused` stronger: they are found even so. The theorems do not assume it.

### RxRing

Each descriptor has a buffer, `content` is the packet written to it, `up` and
`read` what mac80211 got and found there. `RxRefill` is the allocation (or its
failure, which the code ignores), `RxArm` the VALID bit and the enable register,
`RxDeliver` the hand-over, and `RxDone` and `RxReturn` the end of the loop and
of the handler, between which another packet may arrive.

### Smd

`cmd[c]` is a caller in the middle of a request function, whose shape is the
same for all: take `hal_mutex`, build, `init_completion`, send, wait, check,
return. `left` counts fragments, 1 for every command but `load_nv`. A message is
a request or response with the number of the request, or an indication with its
own number. An answer may come at any time after its request, also after
`HAL_MSG_TIMEOUT` (`CmdTimeout` needs no more than that nothing has completed):
it is then taken for that of the next command, since responses carry no number
that the driver compares, and copied over what that command has built (finding
`smd_late`). The variable `quiet`, which no action reads, records whether an
answer to an earlier message was under way when the last one was built;
`OwnResponse` and `SentAsBuilt` are about messages built when none was. Both
work items have the kernel's semantics: queueing a pending one does nothing, and
it stops being pending when it starts.
`NoReadMem`, a packet for which `smd_work` has no memory, is FALSE in the runs,
because the code promises no retry; the proofs cover both values.

### Station

A callback assigns its fields and leaves a list of commands, and assignments
between them, in `thr[t].todo`. There are three threads: `mac` for the callbacks
of a connection, `work` for mac80211's own work items (scan, channel, multicast
filter), and `dfs` for debugfs. Each command is atomic, which is what `Smd`
shows of an exchange under `hal_mutex` that meets no late answer; it is done,
refused, or done with its answer lost. The firmware is external: it hands out the least free BSS and
station entries and refuses a command about what it does not have. mac80211 is
external too and is modelled by the order in which it calls a driver. `history`
records which faults happened, so that properties can say what they exclude:
besides failures, two power-save calls at once (`mixed`), and a multicast list
that comes to run after its association has ended (`outlived`), which the next
BSS may then get.

### AccessPoint

The same way of modelling, for one thread of callbacks, with frames sent at any
time between their commands. Peers are all alike. A beacon is the length of its
TIM's bitmap and the bytes behind the TIM; `SendBeacon` pads it as
`wcn36xx_smd_send_beacon` does, and `BeaconWhole` compares it with a template
written from the comment in that function. `update_allowed_rates` is modelled
with its conditional shift, so a mask with a gap loses rates; `FrameNamesPeer`
says so in `NoGap`, and `Supported` is the reference, bit by bit of the mask.
Mesh points differ in the link state and in that their beacon is not padded;
`BeaconWhole` accordingly excepts, in a mesh, a beacon too long as it is, and
otherwise one too long once it is padded. `Copied` is the `memcpy` into a message
of fixed size: what is longer runs over the fields behind the template. The code
lets that happen for a bitmap longer than the firmware's: `pad` is negative there,
and the size test (smd.c:1409) is made on a length shorter than what is copied,
which is why `BeaconWhole` leaves those bitmaps out.

### Ampdu

`sta` holds the driver's `ampdu_state`, `non_agg_frame_ct` and `tid`, `sess` and
`rx` mac80211's sessions, `ba` the firmware's. A section under `ampdu_lock` is
one step, the commands after it are steps of their own in `todo`. mac80211's
side is external: a request may be turned down or given up before the driver
hears of it (`refused`), and a station leaves by ending its sessions first.

### Lifecycle

A resource is `none`, `held` or `freed`; the code never clears a pointer, so a
second free is an error while freeing a NULL one is not. `pc` is the step of
start or stop, including every label of the unwinding; `drv` is where probe and
remove are. `SmdOpen` includes the platform module's open with its three ways of
failing, of which it undoes none. `LoadNv` is one fragment, with the offset a
`u16` scaled down for TLC: 16 values and fragments of 3 instead of 65536 and
3072; in both the offset range is no multiple of the fragment size.
`raced` marks a start between the release of the NV file and the unregistering
of the device (main.c:1115-1118), which nothing in the driver prevents.

## Runs

All "pass" runs explore the full state space.

| run | shows | bounds |
|---|---|---|
| `tx_up` | one CPU: stopped queues are woken, every frame is settled, and the rings implement `TxFifo`, until two contexts meet at a pair | both rings of 4 descriptors (two pairs), three low frames, so that the ring fills and wraps, and a high one, one of each with TX status |
| `tx_smp` | two CPUs, two senders on one ring: pairs stay pairs and no frame is freed twice, whatever meets; until two contexts meet at a pair, only what was sent is reaped, nothing in flight is given back, a sender keeps its slot, stopped queues have a reason | one ring of 4, three frames, one with TX status, which is lost at any time, power save |
| `tx_refused` | violated: a refused frame stays in `tx_ack_skb`, and in the BD of the oldest queued frame | one CPU, one ring of 4, three frames, one with TX status |
| `tx_half` | violated: on one CPU, a frame is freed whose descriptor then becomes valid | one CPU, one ring of 4, four frames |
| `rx` | buffers, order and delivery | 3 descriptors, 5 packets (the ring wraps, and fills while the handler runs), failing refills |
| `smd` | commands are serialised and return; each reads its own response, if built with no earlier answer under way; the indication worker finds an entry, in order; every packet is read | two callers, two messages or a message of two fragments, two indications, failing writes, requests answered late or never |
| `smd_late` | violated: a late answer overwrites the message the next command has built | two callers, three messages |
| `smd_stuck` | violated: an indication stays queued, under fairness of all threads | two indications, no commands |
| `sta` | driver and firmware agree, nothing is left, `delete_sta` names the peer | two connections, two BSS and four station entries, one fault, two requests of debugfs or a work item, a multicast table of one address |
| `ap` | frames name their peer, templates are whole, nothing is left | two peers, one fault, bitmaps shorter and longer than the firmware's, a template that no longer fits when padded, rate masks with and without a gap |
| `ba` | `ampdu_state` and the firmware's sessions follow mac80211's; a request is answered | two TIDs that share the counter, threshold 1, one refused command |
| `start` | releases, uses, NV image, chip, termination | two probes, two starts, two faults; NV files of the header alone, one fragment, one byte more, and the largest the offset can address |

Why the bounds are enough to be interesting: a ring of two pairs is the smallest
in which full, empty and wrapped differ, and with three frames a slot is used
again, after a refusal too; two messages are a command that times out and the
one its answer falls upon; two connections are needed for
an index of the first to be used in the second; two starts are needed for a pointer of an earlier one to
be freed in a later, two probes for what the platform module keeps between them;
a second fault can hit the unwinding of the first; two peers are needed for one
to take the index of another, two TIDs for one to use up the other's count.

The violations are findings, each quoted with its line in `PROJECT.json`.

### What the properties except

An exception in a property is something the code does, found by leaving it out:

- In `TxRing`, `~torn` and `torn` (see there). `FreedOnce` leaves out frames with
  TX status, whose indication may give them back before the reaper comes to
  them: nothing orders the two, and the reaper then looks into such a frame
  (dxe.c:362-367). `StopHasReason` counts a TX status that was lost, or whose frame was
  refused, as a reason: that it goes away is for `QueuesWoken`, checked with no
  status lost.
- In `Smd`, `quiet` (see there).
- `NothingLeft`, `PeerAsConfigured`, `ApNothingLeft`, `FrameNamesPeer`: a lost
  response loses the index in it; a removal that is refused is not repeated; a
  change of the beacon whose `config_bss` fails has already forgotten the index
  (main.c:762). `DeletesThePeer`: a peer that never associated was never
  configured, and `delete_sta` then names index 0, the interface's own entry.
- `FreedOnce`: the paths after a failed allocation of pools or control blocks
  free them twice. `NothingHeld`: hal_buf's failure skips the pools, a failing
  interrupt leaves the RX buffers, the platform module's open undoes nothing.
  `UsedWhileHeld`: the unwinding after a timeout frees `hal_buf` before the
  channel is closed.
- `StateHasSession`: mac80211's refusal of a session is ignored, and the TID
  stays at START.

### Fairness

Weak fairness of a sender's steps, the handler's steps, the worker's and the
engine's: kernel threads run, a level-triggered interrupt is taken, and an
enabled channel goes on. No fairness for mac80211 to send, the chip to change
power state, packets to come or the firmware to answer. In `Smd` and
`Lifecycle` fairness of threads is strong because they wait for a mutex, or for
`free_irq`, which others take again and again; the kernel's mutexes queue their
waiters. In `Ampdu` commands return (weak, which `CommandsReturn` of `Smd`
shows), and mac80211's call for a pending session is strong, because it waits
until no other call is under way; the peer's answer or mac80211's timer is part
of that call.

`tx_up` checks liveness with no lost TX status: with one, the queues stay
stopped, which `txrx.c:315` says itself ("TODO: Add watchdog in case FW does not
answer"). The same is true after a sender died of a NULL frame, hence `torn`.

## Proofs

| theorem | for every |
|---|---|
| `TxRingProofs`: `TypeCorrect`, `PairsAreKept`, `FramesAreFreedOnce` | set of CPUs and frames, even ring size from 4 on, power save, lost TX status |
| `TxRingProofs`: `ReapsWhatWasSent`, `InFlightIsKept`, `SlotIsOwn`, `StoppedHasReason`, `RingsAreQueues` | the same, until two contexts meet at a pair (`torn`) |
| `RxRingProofs`: `TypeCorrect`, `NoWriteToDelivered`, `PacketsKeepOrder` | ring size, number of packets, failing refills |
| `SmdProofs`: `TypeCorrect`, `MutexIsTheCommands`, `QueueNeverEmpty` | set of callers, number of messages, fragments and indications, all faults |
| `SmdOrderProofs`: `IndicationsInOrder`; `ResponsesAreOwn`, `MessagesSentAsBuilt` (for a message built when no answer was under way) | the same |
| `AmpduProofs`: `TypeCorrect`, `StateHasItsSession`, `FirmwareHasTheSessions` | set of TIDs, threshold, number of refused commands |
| `LifecycleProofs`: `TypeCorrect`, `NvWhole`, `ReleasedOnce`, `HeldWhileUsed`, `NothingLeaks` | fragment size, offset range and NV file that it can address, number of probes, starts and failures |
| `StationProofs`: `TypeCorrect`, `ConnectionLeavesNothing`, `PowerStateRight`; `FramesFitThePeer`, `PeerIsDeleted` (these under `Room`) | size of the firmware's tables and multicast list, number of connections, requests and faults |
| `AccessPointProofs`: `TypeCorrect`, `NothingIsLeft`, `BeaconIsWhole`; `FramesNameThePeer` (under its `Room`) | set of peers, beacons and rate masks, sizes of bitmap, template and tables, number of faults |

The assumptions are the modules' own (`TxAssumption`, `RxAssumption`,
`SmdAssumption`, `AmpduAssumption`, `LifecycleAssumption`,
`StationAssumption`, `ApAssumption`), which TLC evaluates
on every run. What a theorem assumes besides (none in `TxRingProofs`,
`SmdOrderProofs` and the rest):

- `Room` of `StationProofs`: the firmware has a BSS entry and three station
  entries, for the interface, the BSS and the peer. `Room` of
  `AccessPointProofs`: station entries for the interface, the BSS and every
  peer, which are finitely many. Where a table is too small `config_sta` is
  refused, the driver ignores that, and its frames name an entry of another.

The instances of TLC satisfy them, `ap` with not one entry to spare.

*Types of TxRing.* `TypeOK` is inductive. Its parts (`RingTypes`,
`SenderTypes`, ...) are each proved to survive the steps of a sender
(`SenderStepTyped`), of `TxStart`, of the handler and of the rest, from lemmas
that `next` stays in the ring (`NextInRing`) and that updating one cell of a
ring keeps its type (`CellTyped`).

*Pairs.* `PairsKept` is not inductive: `TxAdvance` moves the head to two after
the sender's own `ctl`, which must itself be even. `BdFirst` adds that a sender
between the check and the advance has an even `ctl`. With an even ring size
`next` changes parity, also at the end of the ring (`NextAlternates`), so
`AfterFrame` keeps it. This does not need `SerialTx`: pairs survive even senders
that overtake each other.

*Until two contexts meet.* The other TX theorems but one have the invariant
`torn \/ PathInv`, proved once for every step. `PathInv` is the conjunction of
what one has to know together:

- `Apart`: senders have frames of their own, and at most one builds in a ring.
- `FrameInv`: where a frame is. A sender's frame is nowhere else until it is
  mapped (`SenderFrames`), a mapped frame is in one control block
  (`RingFrames`), and `tx_ack_skb` names the frame with a status to come
  (`AckFrames`).
- `RingInv`: a control block with a frame has it for the engine, for the reaper,
  or for the sender at it (`SlotInv`); what a sender works on is free, and once
  it has stored its frame there the reaper is not at that block (`BuildInv`);
  what the handler frees was sent (`HandlerInv`).
- `BackInv`: mac80211 has back only what the driver no longer uses.

The tail is the point: `reap_tx_dxes` visits one slot even of an empty ring, and
a BD the engine has taken alone no longer stops it. That is harmless unless a
frame is just being stored there.

*Freed once.* `FramesAreFreedOnce` needs no condition. `OneSlot` is the
invariant: a frame is in one control block at most, and not at a sender that has
yet to store it, whatever else two contexts have done to the block; `BackInPlace`
says where the frames that mac80211 has back may still be.

*Stopped queues.* `StopHasReason` is inductive but for the stop that waits for a
TX status: that `tx_ack_skb` still names the sender's frame when it stops the
queues is `AckFrames`. A stop that falls between the reaper's clearing of
`queues_stopped` and its wake-up is undone by that wake-up
(`irq.pc = "waking"`).

*TX refinement.* `TxFifo` has the queue of each channel as a function of the
rings: the frames from the engine's position on. `OrderInv` says that these fill
every second control block up to the one the next sender will take, none
missing and none beyond; going round is in `Before`. `RingsAreQueues` then has
one step per action: making the descriptor valid appends, the engine's step
takes the first, the handler's frees one that was transmitted, and all others
change nothing the queues see.

*RX ring.* Slots are counted from the one the handler takes next (`Base`) with
`Dist`. `RingOrder` says that the packets received and not taken fill the first
slots and no other, and that the chip is at the slot behind them; `Contents`
that the n-th of those slots holds the n-th of those packets; `Owners` that no
buffer is in two places. The arithmetic of going round the ring is in
`DistOfNext` and `DistFromNext`.

*Mutex.* `MutexOfCommand` is inductive together with the types: a caller enters
only when the mutex is free and every return releases it.

*Queue.* `NeverEmpty` needs `RunsCovered`: the runs of `hal_ind_work` that are
owed, one if it is pending and one if it has started and not yet taken its
entry, are never more than the entries in the queue. Both sides grow by at most
one in `IndQueue`, which appends first, and shrink by one in `IndHandle`.

*Order of indications.* `IndOrder` is a chain: those handled, those queued, the
one the platform worker has in its hands, and those in the channel follow each
other in the order of their numbers. Every step moves a number from one part of
the chain to the next.

*Own responses.* `OneAnswer`: while a command built in silence is under way, so
is at most one answer, in one place (the firmware, the channel, the worker, or
`hal_buf` with the completion set), and that to the message it sent. Nothing is
assumed of how long an answer takes: one that outlives its command's timeout is
what makes the next message not `quiet`, and the claim returns with the first
message built after it has been dealt with.

*Block ack.* A call under way is at the tail of one of four sequences of
commands (`CallShape`); a session that is not as it should be in the firmware is
the one the first of these commands is about (`Follows`); and a station that was
removed has left nothing (`RemovedClean`).

*Start and stop.* Every resource of a start has a stretch of the program in
which it is owned (`OwnedAt`). `OwnersInv`: there it is held, and elsewhere it
is not, unless the failure that leaks it has happened (`LeakedBy`). A step that
releases something is within its stretch, hence `FreedOnce`; a handler runs only
while its interrupt is held, whose stretch is within those of what it uses,
hence `UsedWhileHeld`. `DeviceInv` is the same for what a probe owns.

*NV image.* `NvInv`: before each fragment the offset is a multiple of the
fragment size, equals what has been sent, and lies within the table. `NoWrap`
shows from the assumption on file sizes that the offset of the next fragment
still fits a `u16`.

*Station.* What a thread has still to do is always the end of one of few lists
of steps, which depends on mac80211's phase (`Places`, inductive with the
types). `NothingLeft` speaks of the ends of connections only; the invariant says
what each list will still undo: a BSS exists only from `config_bss` to
`delete_bss` and is the one `bss_index` names (`BssInv`), a station entry is the
BSS's, or the one `sta_index` names until `delete_sta` (`EntryInv`), a key is on
`bss_sta_index` until it or the BSS is removed (`KeyInv`), and the scan mode
follows the work item's list (`ScanInv`). For `SleepIsKnown`, `PmcInv` adds that
the power-save steps of two threads do not meet, and that a sleeping chip is
known to `pw_state` or about to be, by a thread at the assignment after a
successful `enter_bmps`. All but the types, `Places` and `SleepersExist` (only
a BSS can sleep) hold only while nothing was lost or kept (`Clean`).

*What an association has.* `ConnInv` adds to the above, unless a command
failed, `Held`: between its `config_bss` and `config_sta` and their removal, the
BSS, the peer's entry and the key are those the driver's indices and flag name.
A refused command cannot be told from a full table there, so `Room` is needed to
show that `config_bss` and `config_sta` find an entry (`RoomLeft`: what the
interface and the BSS occupy is not all).

*AccessPoint.* `Core` is what holds whatever fails: types, the lists of steps a
callback goes through and what mac80211 has at each (`Place`, with `After`
giving the step that follows), and the driver's record of its peers (`Known`).
Each property then has an invariant that says what it means in the middle of a
callback. `Left`: a BSS exists while the interface beacons or closes, every
entry is the BSS's or that of a peer at the index the driver has. `Made` and
`Sent`: the firmware has the BSS except while a callback configures it anew, and
the current template except while a callback sends it. `Named`: the interface,
the BSS and each peer have their entry, with the rates and key of the peer; that
`config_sta` finds a free entry is the pigeonhole principle (`RoomForPeer`),
since by the other invariants entries name their owners one to one.

*What the operators compute.* `TemplateAp` shows the template byte by byte: the
`memmove` of the tail, the padding and the raised length give `WantedTemplate`
for every bitmap and tail (`PadTimAt`, `WantedAt`). An attempt to prove
`BeaconWhole` in an earlier form showed it false for other constants than those
of the run: it measured the beacon of a mesh as if it were padded.
`RatesAreSupported` shows that the loops of `update_allowed_rates` find exactly
the bits of a mask without a gap, in both bands: two numbers from which they find
the same are equal or both have no rate left (`Same`), which each round of the
loop keeps. Both loops are recursive functions; that they are defined at all
(`IteratesExist`), and what holds at every argument, follows from the least
counterexample (`LeastIn`, from the well-foundedness of `<`).

Only model-checked: liveness (`QueuesWoken`, `FramesSettled`, `CommandsReturn`,
`ChannelDrained`, `PacketsDelivered`, `StartEnds`, `StartReturns`), which under
fairness is out of the prover's reach. Every invariant of a passing run is
stated by a theorem. One invariant is proved and in no run: `SentAsBuilt`, the
counterpart of what `smd_late` violates.

## Not modelled, and the plan

- Several interfaces at once: walks of `vif_list` without a lock
  (`get_vif_by_addr`, txrx.c:222), and a missed-beacon indication that is handled
  when its `bss_index` belongs to another connection (smd.c:2068). It needs
  interface, queue and connection in one module.
- BMPS entry against the doorbell (pmc.c:27): the firmware's side of going to
  sleep is not in this code, so a model would be about an assumption.
- Store reordering between the CPU and the DMA engine (dxe.c:656).
- IBSS mode: the callbacks of `AccessPoint` with a BSSID that changes as in
  `Station`.
- Within modelled components: HT parameters, WEP group keys, DTIM and SSID
  fields, `put_cfg_tlv_u32`, queue and TID fields of a BD, header parsing of a
  received frame, initialisation of `vif_list` and `dxe_lock` after the
  interrupts are on (main.c:301-303), module initialisation of the platform
  module. `wcn36xx_smd_update_scan_params` is called by nothing.

Planned next: a joint module of two interfaces and the indication queue; the
message that a late answer may still reach (how far one late answer carries
before the channel is quiet again).

Left out for good: contents of messages and frames except where they are an
index or a flag that something else must agree with, logging, debug dumps,
platform resources, module registration and build files.
