# Verification of the SJA1105P switch driver

This directory holds TLA+ models of the Linux driver for the NXP SJA1105P/Q/R/S
Ethernet switches, the TLC configurations that check them on small instances,
and proofs of their main invariants for instances of every size.

The driver runs on a host that is connected to the first of a *line* of switches
(`SJA1105P_N_SWITCHES`): data over an Ethernet port, the host port of the first
switch, and control over SPI. A cascaded port leads from one switch to the next.
Callers see *logical* ports that are numbered across all switches.

1. [The system](#1-the-system): its parts, their state and operations, what is hard about them
2. [The modules](#2-the-modules): which module models which part, and how
3. [The runs](#3-the-runs): what each shows, bounds, fairness
4. [What is proved](#4-what-is-proved)
5. [Disagreements found](#5-disagreements-between-code-and-documentation)
6. [What is not modelled](#6-what-is-not-modelled)
7. [Plan](#7-plan)

## 1. The system

Paths are relative to `src/`; `pi/` abbreviates `platform_independent/src/NXP_SJA1105P_`.

### Components, their state and their operations

| Component | State | Operations |
|---|---|---|
| Management routes and egress timestamps, `pi/mgmtRoutes.c` | per switch, which one-shot routes are in use and for which address; per timestamp index, a bit per port and a count; the handler | set up a route in every switch on the way, poll and dispatch timestamps (cyclic), read one timestamp, flush, register the handler |
| Receive queues and listeners, `pi/ethIf.c` | for the switch interface and for the endpoint interface: a ring of bytes, a ring of lengths and descriptors, a handler and the number of frames it wants | dispatch an arriving frame, listen for *n* frames, fetch one frame |
| Trapped frames and meta frames, `pi/ethIf.c` | a stack of frames that wait for their meta frame; information on the last trapped frame; subscribed Ethertypes | receive (cyclic), subscribe, initialise interfaces, flush, send |
| Address resolution table, `pi/addressResolutionTable.c` | none in software: the tables of the switches are the state | add, read and remove an entry by index or address, mirror, retag |
| Forwarding database, `switchdev/src/sja1105p_switchdev.c` | none | add, delete, dump |
| VLANs, `pi/vlan.c` | none in software: the VLAN tables | write and read a VLAN over the cascade, enable it at a port, mirror it; the bridge adds and deletes VLANs at ports |
| Retagging and bypassing, `pi/vlan.c` | per entry: the VLAN, and which of two kinds of rules use it | start/stop retagging, enable/disable bypassing |
| Port mapping and synchronisation, `pi/config.c` | logical to physical port and back; a mask of logical ports per switch; copies of parameter tables | load and check the configuration, map ports by hand or automatically, re-read |
| PTP, `pi/ptp.c` | one clock mode for all switches | read, set and adjust the clock and its rate; synchronise cascaded clocks |
| Time stamps, `pi/utils.c` | none | complete the low bits a switch captured, with a clock read later |
| Shapers, `pi/cbs.c` | none in software: the shapers of the switches | add and remove streams, configure and remove a shaper |
| Ports and clocks, `pi/portConfig.c` | whether PLL1 is enabled | configure clocks, speed, pads and delays of a port |
| Links and statistics of the bridge, switchdev | link state and speed per port | follow the PHY, counters |
| Probe and removal, `sja1105p_init.c` | `switches_active`, the array of contexts, the mapping collected so far | probe one switch, finish when the last one is there, remove |
| Register access, `platform_independent/src/low_level_driver/` | none: the registers | some 190 accessors that pack and unpack fields |
| SPI on Linux, `platform_integration/` | the SPI device of each switch, the callbacks | read and write words |
| Diagnostics, configuration stream, CRC, debugfs | none to speak of | read and write |

### How they interact

* `SJA1105P_sendSwitchFrame` and `SJA1105P_sendEndPointFrame` (ethIf) call
  `SJA1105P_setupMgmtRoute` and then send the frame through a callback of the host driver.
  The switch uses the route up with the first frame that matches it, and captures
  a timestamp that a later tick reads. Nothing tells the driver when either happens.
* The receive loop of ethIf asks the host driver for a frame through another
  callback, recognises trapped and meta frames by the filters in the general
  parameters table (kept by config), and hands frames to one of two queues, to a
  handler, or back into the network through the sending path.
* Bridge operations are thin: they search the address resolution table, change what
  they found and write it back. The switches change the same table by themselves
  when they learn and age addresses.
* Management routes and address resolution table use *the same* registers of the
  switch's level 2 lookup engine.
* Nearly everything translates logical ports by the mapping in config, which
  probing establishes once the last switch has been probed.
* Probing and the link update of the bridge (`rtnl`) take locks, but not ones that span what
  they do: probes depend on the driver core, which runs them one at a time. All other functions are
  exported to the kernel and called from whatever thread needs them.

### What is hard

*The hardware works concurrently*: it uses up routes, captures timestamps, learns
and forgets addresses between any two steps of the driver, and the driver's
copies are stale as soon as they are read. *Cascades*: each operation on several
switches must leave them consistent, and frames of several switches reach the
host interleaved. *Failing transfers* stop an operation halfway. *Bounded
tables* of routes, timestamps, entries and queues fill up. *Small integers*
(`uint8_t` counts, ring indices, index fields) wrap. *Missing locks* let two
callers interleave. *Order of calls*: rules that share an entry may be set and
cleared in any order.

### What makes each component correct

* **Management routes**: a frame uses the very route set up for it in every switch,
  whatever else is pending; no armed route is overwritten; a timestamp slot belongs to
  one frame from reservation to reading; captured timestamps are dispatched.
* **Queues**: frames are neither lost (except when full), nor repeated, nor reordered,
  nor damaged; a listener gets the old ones first and exactly as many as it wants.
* **Trapped frames**: each is handed on once, with its own port and timestamp, to the
  interface it belongs to, even if some are lost.
* **Address resolution table**: all switches agree; frames reach exactly the requested
  ports from wherever they enter; learned entries do not hide permanent ones;
  changing one address leaves the others alone; a deleted entry is gone.
* **Retagging**: rules of one kind or VLAN never disturb those of another; an entry
  that is given up leaves nothing behind.
* **VLANs**: to a VLAN the line is one bridge. A frame of any enabled port reaches every
  port the VLAN is forwarded to, over switches without a port of their own, and no other.
* **Port mapping and probing**: each index belongs to one switch, in its context, in SPI and
  in the device itself; mapping, inverse and masks agree; the bridge starts on a complete
  line of configured switches.
* **PTP**: a call has the effect on the clock that was asked for, whatever mode the switches
  are in; slaves follow the master while nothing parts them.
* **Time stamps**: what is handed on is the time on the wire, wherever the low bits wrapped.
* **Shapers**: what callers were granted is what a switch reserves.
* **Links**: MAC, transmit clock and delay fit the speed of the link, whatever it was before.
* **Registers**: what is written is read back, and nothing else changes.

`PROJECT.json` lists 40 hazards with the line at which each bites and the
properties that cover it, or why none does yet.

## 2. The modules

| Module | Contents |
|---|---|
| `MgmtRoutes` | routes and timestamps, software and hardware |
| `EgressService` | what they promise a sender; there are no routes in it |
| `MgmtRoutesProofs` | theorems about `MgmtRoutes` |
| `RecvIf` | byte ring, element ring and listener of one receive interface |
| `RecvService` | a bounded queue with a listener |
| `RecvIfProofs` | theorems about `RecvIf` |
| `MetaFrames` | trapped frames, the stack, pairing and dispatch; a line of switches |
| `TrapService` | each trapped frame is handed on once, with its own data |
| `MetaFramesProofs` | theorems about `MetaFrames` |
| `ArlTable` | the address resolution tables of a line of switches |
| `Fdb` | bridge operations; extends `ArlTable` |
| `ArlProofs` | theorems about both |
| `Retagging` | the table of entries shared by two kinds of rules |
| `RetagService` | one rule of each kind per VLAN |
| `PortMapping` | logical and physical ports, both mappings, translations of port vectors |
| `Probe` | probing, failing, finishing and removing switches; extends `PortMapping` |
| `BringUpService` | switches become ready in order; the bridge starts on a complete line |
| `ProbeProofs` | theorems about `Probe` |
| `Vlan` | VLAN tables of a line, their operations and those of the bridge |
| `Ptp` | clocks and modes of a line; a call is a sequence of transfers |
| `PtpService` | one clock, on which each call takes effect once |
| `PtpProofs` | theorems about `Ptp` |
| `TimeStamps` | completing a captured time stamp |
| `Cbs` | shapers of the switches |
| `Links` | a port that follows its PHY |
| `ServicesProofs` | theorems about `Retagging`, `Vlan`, `TimeStamps`, `Cbs` and `Links`, and about the line of all services (`MCServices`) |
| `RegisterLayout` | fields in words: packing, unpacking, addresses, enumerations |
| `SwitchCore`, `Sgmii`, `AuxiliaryConfigurationUnit`, `ClockGenerationUnit`, `ResetGenerationUnit` | the layout each accessor of the low-level driver uses, under the name of the function |
| `RegisterFile` | the memory of a switch under calls of all accessors |
| `RegisterFileProofs` | theorems about `RegisterFile` |
| `MC*` | constants, sets and symmetries of the instances TLC checks |

Names of variables and operators are the source's where TLA+ allows it.
`PROJECT.json` maps each definition to its lines. Definitions whose comment says
*mutant* or *mutated form* are plausible bugs: with one of them in the place of
the definition that follows, TLC finds the corresponding property violated. They are
used nowhere else.

### MgmtRoutes

The four software variables are those of `mgmtRoutes.c`: the bits
`g_egressTimeStampsAllocated` as a set of ports for each index, the count kept
beside them modulo 256, `g_mgmtRouteActive` as a set of indices, and the
addresses. `hwRoute`, `hwUpdated` and `wire` are the hardware: armed routes,
timestamps not yet read, and frames on their way through the line.

`SetupMgmtRoute` is one call of a sending function. It contains `syncMgmtRoutes`,
`allocateMgmtRoute`, `allocateTimeStamp`, the writes of all routes and the sending of
the frame, with all outcomes: refused, given back for lack of a timestamp, or granted
with some writes failing. The quirk that a failed read leaves index 0 in the
entry shared by all switches is kept (`ProbedIndex`). `GetEgressTimeStamp` and
the tick are `ReadTimeStamps` for different ports; the tick polls only
ports below `SJA1105P_N_PORTS` and only indices whose count is not 0. Reading a timestamp takes
several transfers, and `ReadFailure` says which of them may fail: that of the status, and the timestamp stays
(`"unseen"`); that of the clock or of the speed of the host port, and the slot is given back while the timestamp
is gone (`"lost"`); that of the timestamp itself, and the slot is given back while its flag stays set
(`"kept"`). `delivered` are the timestamps handed out in the last step.
`HwForward` is what the code expects of the switch: the lowest index that
matches, used up by the frame.

### RecvIf

`queue` is `queueMetaData_t` field by field, with its arithmetic: 16-bit byte counts,
and the `uint8_t` operands that are promoted to `int` and then, by `1U`, to 32-bit
unsigned numbers before the modulo. `memory` holds for each byte of the ring which
byte of which frame it is, so that overlapping frames would show. Lengths are counted
in units of 64 bytes, the smallest frame. The switch and the endpoint interface
have the same code twice; the module is one of them. Calls are atomic.

### MetaFrames

`out[s]` is what switch *s* sends towards the host, in order; `waitingMeta` is the
stack with its `g_nPendingMetaFrames`; `trapInformation` is the static variable
that outlives the frame it describes. One round of the receive loop is one action
(`Recv...`), by what arrives: a meta frame while frames wait or while none do, a trapped
frame with or without room for it, a trapped frame that no meta frame follows. `dispatched`
is the last trapped frame handed on, with the source and the timestamp it was given.
Counters exist only for `LossesAreContained`. Assumed of the hardware: a
switch sends in order, with a meta frame directly behind its frame, and the next switch
forwards in order, so that pairs arrive nested. Frames that are not trapped
go straight to the endpoint's queue and are left out.

### ArlTable and Fdb

The driver keeps no copy, so `table` is the hardware. `requested` is a history variable:
the ports each permanent entry was added with. Physical ports are the logical ports of a
switch and its links `"up"` and `"down"`; `DestPorts` is the loop that computes them.
`Located` keeps the comparison `index <= N_ARL_ENTRIES` and the index field that cannot
hold `N_ARL_ENTRIES`. Switches learn and forget at any time (`Learn`, `Age`).
`EntryRead` joins the ports of one index in all switches, as the code does, and takes from
`StaleEntry` what an invalid entry reads as. `EnableArlMirroring` and `EnableArlRetagging` do what
the functions do with *any* index: read what each switch has there and write it back as a permanent entry. `Mirror` and
`Retag` are callers that name an entry they have added, which is what the header says an index is for
(`addressResolutionTable.h:64`); `ChangeAny` is a caller that names any index. An address is a MAC address in a
VLAN. `FdbAdd` and `FdbDel` are whole handlers: they search for the MAC address in VLAN 0, since the VLAN of the call is put
into the entry only after the search.

### Retagging

`g_retaggingTableVlanId` and the two arrays of flags are the driver's; `entry` is
the table of each switch. The search for the entry of a VLAN is not pure:
it claims the first free entry it passes, even if it finds another (`Claimed`).
An operation reads the entry back from each switch and changes only its own fields. A switch with an error is left
with any entry (`Stored`): one that could not be read is written with what the driver's buffer holds, and one that
was reported as an error may have been written or not.

### PortMapping, Probe and BringUpService

The variables of `PortMapping` are the three static arrays of `config.c` and the ports each
switch has in its configuration. `InitAutoPortMapping` and `InitManualPortMapping` are the
two functions, including that the masks are only ever added to and that a manual mapping is
stored up to the first port that is refused. Port vectors are sets of ports.

`Probe` cuts `sja1105p_probe` at what it shares with other probes: it takes its index, it
registers its SPI device, it resets and it configures the switch, it adds to the
mapping, it counts the switch, and the last one finishes. `FailProbe` returns at any of the
exits in between and undoes nothing, as the code does. `deviceTree` is one of the trees in
`DeviceTrees`; `finals` and `mapped` are history. The firmware of a device is a constant. In
`BringUpService` a line of switches grows and shrinks at its end; the refinement maps the SPI
devices below the count to it.

### Vlan

`vlanTable` is what the switches hold; a set of ports stands for each bit vector.
`WrittenEntry` computes the entry of one switch as `SJA1105P_writeVlanConfig` does: the links
to the neighbours are used in the direction in which there is a port to forward to, between
the first and the last switch with an enabled port. `enabled` and `forwarded` are what callers
asked for. `spanned` remembers for which VLANs the last call set up links for the ports the
VLAN has: `SJA1105P_enableVlan` does not touch them, and a VLAN forwarded beyond its enabled
ports gets none. The bridge always has the former include the latter.

### Ptp and TimeStamps

`g_ptpControl2` is the mode the driver remembers, `mode` what each switch is in. A call puts
all its transfers in `transfers`, as the loops of the code: each makes the transfers of its body to one of its
switches after the other. `Transfer` carries out one, and `PtpTick` lets time pass before any of them. What a value written to a clock does is the
switch's decision (`Adjusted`). `captured` is the clock at the synchronisation impulse. Calls
do not overlap. In `PtpService` there is one clock; the refinement takes that of the master, and
a call as pending until the transfer that changes that clock.

`TimeStamps` follows one frame from its capture to the driver, in the order in which the
driver reads status, clock and low bits, with a clock that goes on between them and wraps.

### Cbs

`shaper` are the entries of the switches. `GetShaperId` is the search: the shaper of a port
and priority, or else the first free one, where free means a send slope of 0. `reserved` is what
callers were granted. The operations compute modulo 2^32 (`SlopeRange`) and check nothing, as in the code. `CbsNext` has
callers that admit streams as far as the port has bandwidth, at priorities with a class measurement interval, and
that give up only what they have.

### Links

`NxpUpdateSpeed` is `nxp_update_speed` with `SJA1105P_setSpeed` and `configPort`: the divider,
the source of the transmit clock and the receive delay as functions of interface and speed,
and of what the divider was before where the code leaves it alone. `phy` and `pending` are the
PHY and its callback. A PHY in `Faster` may also report a speed the switch does not know, which the bridge
records without setting anything up.

### Registers

A register, as an accessor sees it, is an address with the steps of its indices (a port, a direction),
a number of words, and for each field the bits of the words it takes up. The five modules of
units transcribe these from the constants and shifts of each function, setters and getters
*separately*, since that they agree is the question. `Packed` masks, shifts and ORs;
`Unpacked` masks and shifts back; `Converted` is what the `convertTo` functions make of
a code. Values are sets of bits, so that nothing depends on the width of an integer.
`RegisterFile` calls any setter with any of `Arguments`, then others, and lets the
hardware raise a bit.

## 3. The runs

All runs but `bring_up` check for deadlock: a stopped system would be reported. In `bring_up`
a complete line whose removals are used up really stops.

| Run | Instance | Distinct states | Shows |
|---|---|---|---|
| `mgmt_cascade` | 2 switches, 2 routes each, 1 timestamp index, 2 addresses, 2 frames in flight | 71,920 | type correctness; `LiveRoutesActive`, `NoLiveRouteOverwritten`: the software copy errs on the safe side; `FrameUsesOwnRoute`; `TimeStampSlotsExclusive`; `CountMatchesBits`; `CapturedIsDispatched` (liveness); `MgmtRoutes` implements `EgressService` including its fairness |
| `mgmt_faults` | 1 switch with 2 ports, 2 routes, 2 timestamp indices, 1 address; transfers of routes, of the status and of the clock may fail | 172,093 | slots stay exclusive and their count exact if these fail, also where a captured timestamp is lost |
| `mgmt_flush_timestamps` | as above without failures, with flushing | violation | see 5 |
| `recv_queue` | 4 elements, 7 units, 3 frames of different lengths | 142,347 | the rings never let two frames share a byte; a listener leaves nothing queued; `RecvIf` implements `RecvService` |
| `recv_pop` | the real 23 elements | violation | see 5 |
| `meta_line` | 3 switches, 4 frames trapped over and over | 139,882 | frames wait in the order of the line, so one slot per switch is enough; `MetaFrames` implements `TrapService`, including that every frame is handed on (liveness) |
| `meta_losses` | 1 switch, 2 losses, 1 flush | 57,768 | each loss costs at most one wrong pairing and one dropped frame |
| `fdb_line` | 3 switches with a port each, 2 entries, a MAC address in 2 VLANs | 43,866 | all switches agree; forwarding is exact; learned entries hide nothing; deleting an address leaves the other alone |
| `fdb_del` | 1 switch, only the bridge uses the table | violation | see 5 |
| `registers` | all accessors of the low-level driver at the addresses of the chip | 160,929 | what a setter writes its getter reads back, and no other accessor finds anything changed; a raised status bit is reported by one field only |
| `bring_up` | 2 switches of 3 ports, 4 logical ports, 3 device trees, 2 removals | 5,707 | an index means the same switch to the contexts, to SPI and to the device; mapping, inverse and masks agree; `Probe` implements `BringUpService` |
| `services` | one of retagging, VLANs, PTP, shapers, links, time stamps at a time | 183,602 | one entry per VLAN and nothing left behind; a VLAN connects its ports; clocks agree; reservations are counted; MAC and clocks fit the link; stamps are exact; `Retagging` implements `RetagService`, `Ptp` implements `PtpService` |

`services` joins modules that share no state: `service` picks the one that runs, so that the states add up
and do not multiply.

### Bounds, and why they are enough

* *Two switches* for management routes: a route is either written with or without the cascade
  port, and two switches have both; a third behaves as the second. *Three switches*
  where the middle one of a line is a case of its own (`DestPorts` adds links to
  both sides; pairs nest twice).
* *Two routes, two frames in flight* (`MaxInFlight`, per switch): two frames to the same address
  that are both pending are what the order of indices is about; a third setup is
  refused. The hardware has four routes; the theorems on routes and slots hold for
  every number.
* *One or two timestamp indices*: with one, a frame may find none free; with two, `BestTimeStamp`
  has a choice.
* *Four elements, seven units*: a power of two, for which the index arithmetic is right
  (see 5). Neither ring's capacity is a multiple of the lengths, and either may be the
  one that is full first.
* *Two entries, two addresses (of different VLANs), 3 VLANs for retagging*: a full table, an address in two entries, and more
  VLANs than entries all happen.
* `MissErrors = {TRUE}`: a search that finds nothing sets the error flag. The code relies on this;
  without it, removing an unknown address hits index 0 (a hazard in `PROJECT.json`).
* `StoreErrors = FALSE`: the switches report no error for retagging entries. With errors an entry is
  forgotten while it is in use (also listed as a hazard).
* `MaxLost`, `MaxFlushed` bound the losses and flushes; `NFilters = 1` Ethertype filter.
* `SpiMayFail`: in `mgmt_faults` any set of switches may fail in reading and any other in writing, in each call.
* `ReadFailure`: empty in `mgmt_cascade`, which is about order and exclusion; `"unseen"` and `"lost"` in `mgmt_faults`; with
  `"kept"` in addition neither of its properties holds (section 5).
* `StaleEntry`: what an unused index reads as is an entry without ports, for one address. It is read only if a search names an unused index,
  or if a caller of mirroring does (`ChangeAny`, which is not part of `FdbSpec`).
* The link from the host to the first switch is lossless in `MgmtRoutes`.

* *VLANs* (`services`): three switches with one external port each. The ports of a VLAN span any part of the
  line, and the middle switch may have none of its own. One VLAN identifier, since entries of different
  VLANs meet nowhere in the code. `FewPorts` are the ports that are mirrored or untagged.
* *PTP*: the second of three switches is the master, so that slaves lie on both sides of it. Clocks count
  modulo 3 (`ClockRange`), with one offset and two ratios.
* *Time stamps*: clocks of 4 bits (`StampClockRange`) with captured stamps of 2 (`StampRange`), so that both
  wrap at every phase. Assumed: the driver reads the clock before the low bits come round (34 s in the device).
* *Shapers*: two ports, two shapers and two classes: more demands than shapers. Logical and physical
  ports have the same numbers in `services`, since otherwise the property fails (section 5), and a stream that would take a port's whole
  rate is not admitted (section 6). Slopes are counted modulo 16 (`SlopeRange`), beyond the rate of a port.
* *Links*: an RGMII port, an RMII port that is a MAC, and an RGMII port with an unstable clock delay, at all
  speeds; the first of them with a PHY that knows further speeds. The PHY does not negotiate again before its callback has run.
* *Registers*: two writes after a reset, or one bit raised by the hardware. The arguments are each value of
  each field with the others smallest, and all bits at once: two fields that share a bit differ in one
  of them. `MCSameWords` names accessors that share a register on purpose, `MCUnreliable` the two fields of
  the pads for which the property fails (section 6). `LayoutAssumption` of `MCRegisters` goes beyond that:
  TLC evaluates the conditions on the layouts that the theorems need, bit by bit.
* *Bringing up*: device trees that are complete, lack a number, or number a cascaded port. Probes
  run one at a time (`Quiet`), as the driver core runs them; switches are removed in the reverse order
  (`InOrder`), at most twice (`MaxRemovals`).

Symmetry is used where no property names an address and no liveness is checked: the addresses of
`mgmt_flush_timestamps`.

### Fairness

`MgmtRoutes!Fairness`: a switch forwards what it has, and the tick is called cyclically, which
the comment of `SJA1105P_pollAndDispatchEgressTimeStampsTick` demands of the caller; fairness is
assumed of a tick whose reads succeed: `WF` of `PollAndDispatchEgressTimeStampsTick({"delivered"})`. Nothing is assumed of senders.
`MetaFrames!Fairness`: a switch sends what it has, and the host calls
`SJA1105P_ethIfTick` periodically, so that what has arrived is eventually received.
The other modules have safety properties only.

## 4. What is proved

The proofs hold for every value of the constants that satisfies the named assumptions
of the modules: any number of switches, ports, routes, entries, addresses, any
capacity of a ring. *Hypotheses* are what a theorem needs beyond those; each is an
explicit premise of its statement. Some are about constants; those written `[][...]` are about the behaviour: they
say of each step what must not go wrong in it, and leave open whether anything else does.

| Theorem | States | Hypotheses |
|---|---|---|
| `TypeCorrect` | `Spec => []TypeOK` of `MgmtRoutes` | |
| `SlotsAreExclusive` | no two frames share a timestamp slot | `[][FlagsCleared]` |
| `CountIsExact` | the count equals the number of reserved ports | all ports are polled, `[][FlagsCleared]` |
| `ReadConditions` | the conditions on reads of timestamps hold where the transfers they are about do not fail | |
| `ArmedRoutesAreKnown`, `ArmedRoutesSurvive` | an armed route is in use in software, and no setup overwrites one | `[][SyncsSucceed]` |
| `FramesMeetTheirRoutes` | in each switch a frame meets the route that was set up for it | `[][SetupsAtomic]` |
| `RoutesServeSenders` | every step of the routes is a step of `EgressService` | `[][SetupsSucceed]`, `[][ReadsSucceed]` |
| `SetupConditions` | the three conditions on setups hold where no transfer fails; the second follows from the first on a single switch | |
| `ArlInvariant`, `SwitchesAgree`, `LearnedNeverHides`, `ForwardingIsExact`, `BridgeTypeCorrect` | the invariants of the table for all its users together | `[][NamesEntries]` |
| `OthersForwardAsBefore` | an operation on one address leaves the forwarding of the others alone | `[][NamesEntries]`, `MissErrors = {TRUE}` |
| `EntriesAreUnique` | no VLAN has two retagging entries | `[][StopsSucceed]` |
| `RetagInvariant`, `EntriesAreClean` | the invariants of the retagging entries | `~StoreErrors` |
| `EntriesServeVlans` | the shared entries implement one rule of each kind per VLAN | `~StoreErrors` |
| `QueueTypeCorrect` | types of a receive queue: no index leaves its array | |
| `NothingWaitsForListener` | nothing waits in the queue while a handler listens | |
| `OldestIsPopped` | a pop takes the oldest element exactly if the index of the youngest has not come round since, or the number of elements divides 2^32 | |
| `FramesStayIntact` | no queued byte is overwritten, and offsets and lengths are right | `[]PopsOldest` |
| `QueueServesReceivers` | the two rings implement a bounded queue with a listener | `[]PopsOldest` |
| `MetaTypeCorrect` | types: the stack of waiting frames never outgrows its array | |
| `WaitingInOrder`, `NothingMispaired` | waiting frames lie in the order of their switches; no frame gets another's meta frame | `MaxLost = 0` |
| `LossesContained` | a loss costs at most one wrong pairing and one dropped frame | `NSwitches = 1` |
| `FramesHandedOn` | every step is a step of `TrapService` | `MaxLost = 0`, `MaxFlushed = 0`, `EachFollowed`, `HostPortAtHost` |
| `IndicesAreUnique` | an index means one switch to the contexts, to SPI and to the device | `InOrder` |
| `ProbeTypeCorrect`, `MappingAgrees` | types; the two port mappings are inverse and the masks agree with them | `InOrder`, `LineFits`, `TreesNumberPorts` |
| `ProbingServesCallers` | probing implements `BringUpService` | the same |
| `PortsFollowLinks` | MAC and delay of a port suit the speed of its link, and so does the clock wherever the divider is written | |
| `PortsFitLinks` | MAC, clock and delay of a port suit the speed of its link | `DividerAlwaysSet` |
| `TimeStampsExact` | a completed time stamp is the time on the wire | |
| `VlansConnect` | a frame of a VLAN reaches exactly the ports it is forwarded to | |
| `PtpTypeCorrect` | types of the clocks; every transfer fits its register | |
| `SynchronisedClocksAgree` | clocks that were synchronised agree between calls | `OneMaster` |
| `ClockServesCalls` | the clock of the master implements `PtpService` | `OneMaster` |
| `ServicesAreIndependent` | each service of a line behaves as its own specification says | |
| `ServicesTypeCorrect` | types of all services together | |
| `RegistersTypeCorrect`, `SettersReadBack` | what a setter was given, its getter returns until the register is written again | `LayoutsAgree` |
| `StatusReportedOnce` | a status bit is reported as one bit of one field of one register | `LayoutsApart` |

### Why the hypotheses

* `SyncsSucceed`: a failed read leaves index 0 in the routes' shared entry, and software then takes routes of
  other frames for free. Failing writes do not harm what is armed, nor do failing ticks. But if the routes of a
  frame are written in some switches only, the frame is not sent and its routes wait for another one to the same
  address: `SetupsAtomic` excludes that. It follows from `SyncsSucceed` where there is one switch. `SetupsSucceed` excludes failing writes altogether: after one
  no frame is sent, but its timestamp slots stay reserved, which `EgressService` knows nothing of. Each of these
  conditions allows failures where `~SpiMayFail` would allow none (`SetupConditions`). `TypeCorrect` holds whatever fails.
* `FlagsCleared`: no slot is given back with its flag set. The code does that if the read of a timestamp fails
  after its status has been read (section 5). It allows failures of all other transfers. `ReadsSucceed` excludes
  in addition that a slot is given back while its timestamp is lost, which `EgressService` knows nothing of; it still allows
  that a timestamp is not seen (`ReadConditions`).
* `NamesEntries`: whoever has an index mirrored or retagged names a permanent entry. The functions do not look, and with
  other indices the invariants fail (section 5). The theorems are about `AnyIndexSpec`, in which any index may be named, so
  that the condition is one on the behaviour.
* `StopsSucceed`: a rule whose removal fails at some switch leaves an entry in use whose VLAN is forgotten, and
  a later rule takes another entry for the VLAN. Errors in setting a rule do not: the entry is not in use until all
  switches have it. That the entries of *all* switches are as the driver takes them to be needs `~StoreErrors`, since an
  error means that some switch was not written.
* `MissErrors = {TRUE}`: what the switches are expected to answer; section 3 says what happens otherwise.
* `[]PopsOldest`: no pop takes a wrong element. `OldestIsPopped` says exactly when that is so: `WrapResidue = 0` means that the number of elements divides
  2^32, so that a negative difference keeps its residue when it becomes unsigned. The driver's 23 elements do not
  (`DriverComesRound`), so for them the rings keep their promise until the index of the youngest
  element comes round while earlier frames wait; `recv_pop` is the counterexample beyond. `recv_queue` uses a capacity that
  does divide. The types hold even where the wrong element is taken.
* `MaxLost = 0`: with a loss on a line the stack can hold two frames of one switch; with
  one switch `LossesContained` needs no bound. `EachFollowed` says that each trapped frame is followed by
  a meta frame. `HostPortAtHost` says that only the master traps frames at a port with the number of its host port: `pi/ethIf.c:958`
  compares the source port with that number whatever the switch, and drops others' frames (section 6).
  A flush drops frames on purpose, so `FramesHandedOn` excludes it.
* `InOrder`: removing another switch than the last decrements the count of switches all the same (section 6). `LineFits` and
  `TreesNumberPorts` say that logical ports suffice for the line, and that a device tree numbers external ports from
  0 on; `MCProbe` lets TLC evaluate them for its trees (`LineAssumption`).
* `DividerAlwaysSet`: no MII port in the role of a PHY and no SGMII port, whose divider the code leaves (section 6). `PortsFollowLinks`
  says what holds for those as well.
* `OneMaster`: exactly one switch is configured as the master. The code synchronises those that are not, to the last
  that is: with two masters the first keeps its clock (section 6). The types hold for any number of them.
* `LayoutsAgree` says of each register by itself that setter and getter move the same bits, of its words that no
  other setter writes them, and of the arguments that they fit their fields; `LayoutsApart` that getters' parts
  do not overlap. Neither mentions a behaviour. TLC evaluates both for the some 190 registers of the chip
  (`LayoutAssumption` of `MCRegisters`); there they hold except for the fields of `MCUnreliable`.
* The assumptions of the modules themselves are shapes and sizes: a logical port has one physical port and no two share it, ports
  that link switches are not external (`VlanLinksAssumption`), counters of 8 bits can hold the number of ports
  (`PortAssumption`), values that stand for nothing are not among the proper ones (`RouteAssumption`).

### The arguments

**Management routes.** `TypeOK` is inductive. `TimeStampSlotsExclusive` is inductive with it: a
reservation is the only way to a new claim, and it is taken only where the index is free at
*all* ports of the frame (`BestTimeStampIsUsable`); forwarding turns a claim into a captured timestamp and
disarms the route, which ends the claim; reading ends capture and reservation
together. The count needs exact cardinalities: a
reservation adds ports that were not in the set, and reading removes ports that were,
which is what `TimeStampSlotsExclusive` says of captured timestamps, and which fails of one that was given back with its flag set. It also needs that fewer
than 256 ports exist, so that nothing wraps. `LiveRoutesActive` holds since
where the routes in use are read `Synced` drops exactly the routes that were used up; and since a new route
is taken outside of those in use, nothing armed is overwritten. `FrameUsesOwnRoute` needs to know *which*
of several routes for an address a switch will take: `RoutesInv` says that there is a map `R` from frames on the wire to routes (`OwnRoutes`): each frame has an armed route of its own
in every switch it is still to pass, later frames to one address have higher indices, and no other route is armed.
A setup that wrote its routes extends `R` by an index above all pending ones of the address, one that wrote none leaves `R` as it is; forwarding, which takes the lowest index, takes
that of the first frame. The same map turns a step of the hardware into one of `EgressService`.

**Address resolution table.** `ForwardsExactly` is not inductive: it does not say what the
entries of *each* switch are. `ArlInv` does: every permanent entry has exactly
the `DestPorts` of what was requested (`PortsAsRequested`), all switches agree,
and learned entries lie above permanent ones of their address. The last holds since a
permanent entry takes the *lowest* index that is not permanent, and a switch learns an address
only if it does not hold it. That `DestPorts` leads a frame from every switch to
exactly the requested ports is a lemma on its own. `OthersKeepForwarding` follows since an operation
writes only an index that was free or that it has found for its own address.

**Retagging.** `EntriesMatchFlags` alone is not inductive: `Claimed` changes remembered
VLANs. With `OneEntryPerVlan` and the types it is: only a free entry is ever claimed,
and it stays free unless it is the one the operation uses. The same invariant gives the refinement. `OneEntryPerVlan` with the types is inductive by itself
(`KeepsOneEntry`): an operation touches one index and leaves it to its VLAN, or free.

**Receive queues.** `ListenerLeavesNothingQueued` needs only that a listener is registered on an empty queue. For
`MemoryIntact` the invariant `Intact` says that there are starts (`IsStart`), one per queued frame, such that each
frame lies directly behind the one before, the last ends where the next will be written, their lengths add up to the
counter, and memory holds byte *i* of frame *k* at its start plus *i*. Starts are
not reduced modulo the ring, so that they can be compared; `RingShift` and `Remainder` relate them to indices. The
sum is never written down as a recursion: starts are a witness, extended at one end by a frame and shortened at the other
by a pop. That a pop takes the oldest element is a matter of arithmetic (`OldestTaken`, `OldestIsPopped`): where the
difference of the indices is negative, its residue as an unsigned number is off by `WrapResidue`.

**Meta frames.** The queues of all switches are taken as one stream towards the host (`Before`). `Nested` says that what lies between a
frame and its meta frame comes from switches nearer to the host; `StackInv` that a frame that waits has its meta frame in
the stream, and that frames lie on the stack in the order of their switches. A flush leaves meta frames under
way whose frames are gone; `OrphansLast` says that they come after those of all frames that wait. The
refinement maps each round of the receive loop to the hand-over of the frame it completes. With one switch and losses,
`LossInv` keeps account: as long as a frame waits whose meta frame was lost, one loss has not been paid for.

**Probing.** `IndicesInv` says that a device that is counted is found at its index, below the count, and that the one being
probed claims the next index step by step (`NextIndex`), so that whatever a failed probe leaves there is overwritten by the next.
`MappingInv` says what has been collected for the switches mapped so far: their numbers, if the device tree has them all (`NumbersCollected`), and
otherwise that the mapping will be automatic (`GapsNoticed`). The refinement follows from both.

**Services.** That each service keeps its own specification in the line holds since a step of one leaves the variables of the
others alone; the types of the line follow from theirs. `LinksInv` relates the clocks of a port to the speed of its MAC, that to the speed the bridge remembers, and that to the
PHY unless a callback is pending. `TimeStampsExact` is
arithmetic on two moduli one of which divides the other: it splits on whether the low bits have
come round between capture and reading. For shapers only the types are proved.
For `Vlan`, `MemberBits` relates the entries to what callers asked for and `LinksSpan` says in which direction each link is used.

**PTP.** `ClocksAgree` says nothing of the moments within a call. `PtpInv` does: for each kind of loop that may come first it says
what is left of the call (`Rating`, `ChangingMode`, `Offsetting`, `Correcting` and others, each with the set of switches still
to come) and what those transfers will make of the clocks. Of an offset under way it says that the clocks *would* agree if it were written to the
remaining switches at once (`Target`). Of a correction it says that what parts a slave's clock from the master's is still what parted them
at the impulse (`InStep`), which holds because all clocks run at one rate whenever a correction is under way; so the offset, computed from old values, is
exact when it is written (`CorrectionIsExact`). Time preserves each of these by one lemma about remainders (`DifferencesLast`). The
same shapes tell that the master is in the mode the pending call means when its clock is written, which gives the refinement. The types need none of this, only that all loops still to come are over
switches that exist and carry values that fit (`PtpTyped`).

**Registers.** The layouts are a matter of evaluation, the behaviour is not: `KeptInv` says that after any writes, in any
order, the bits where a getter looks for a field are those its setter was given last. A write puts them there, since parts
that do not correspond have no bit in common (`WrittenIsKept`), and no write elsewhere reaches them (`OthersKept`); that every bit of a
value has a part gives `ReadsBack`. The theorem is about any number of writes of any arguments, where the run has two.

Induction over data (along a line of switches, over a queue) cannot be taken from the library, whose induction theorems have an operator
as a parameter. The proofs use least and greatest elements instead (`LeastElement`, from
`WFMin`): the first point at which something fails has a predecessor at which it holds.

### What is only model-checked

* Liveness, and with it the fairness of `EgressService` and `TrapService`: it is beyond the prover, which has no `ENABLED`. The theorems
  about these refinements state initial states and steps.
* That shapers reserve what callers were granted (`ReservationsCounted`): it holds only where ports have the same logical and physical numbers,
  which is not so on the boards the driver is made for.
* That the layouts of the chip meet `LayoutsAgree` and `LayoutsApart`: TLC evaluates it.

## 5. Disagreements between code and documentation

Each is a run in which TLC shows a behaviour of the code that contradicts a comment.

1. **Flushing** (`mgmt_flush_timestamps`, `pi/mgmtRoutes.c:312`). Flushing
   decrements the count of reserved slots for every port, reserved or not. The `uint8_t`
   wraps, and after the next frame the count may be 0 while slots are reserved: the tick skips them.
2. **The oldest element** (`recv_pop`, `pi/ethIf.c:837`). A negative difference becomes a 32-bit
   unsigned number before the modulo by 23, which does not divide 2^32. Once the element ring has
   wrapped the queue returns a stale descriptor and length.
3. **Deleting from the forwarding database** (`fdb_del`,
   `switchdev/src/sja1105p_switchdev.c:140`). Changing an entry adds another one and keeps the
   old one: after adding an address twice, a successful deletion leaves it in the table.
Four more contradict what a comment or the code around them says. The models contain them, and the runs keep away from
them; this is how to see each:

* *Finding an entry of the forwarding database* (`switchdev/src/sja1105p_switchdev.c:125`, also line 85). Entries are searched for in
  VLAN 0 and written in the VLAN of the call, though the entry to be removed "is identified by MAC and vid" (line 148). `FdbAdd`
  and `FdbDel` with two VLANs: one that was added in another VLAN is not found again.
* *Mirroring by index* (`pi/addressResolutionTable.c:259`, also line 289). "Only permanent entries are handled here" (line 374) is not
  checked but made so: at an index whose entry is gone each switch makes what it has learned there permanent, for a different address in each.
  `MCFdb_line.cfg` with `SPECIFICATION AnyIndexSpec` violates `TablesAgree`, and with it what else is said of entries.
* *A timestamp that cannot be read* (`pi/mgmtRoutes.c:277`). If reading it fails after its status was read, its slot is given
  back with the flag set. The next read gives it back again, and the count that "corresponds to the sum of bits
  set" (line 62) wraps; or another frame reserves the slot first. `MCMgmtRoutes_faults.cfg` with `"kept"` added to `ReadFailure`
  violates `CountMatchesBits` and `TimeStampSlotsExclusive`.
* *Shapers of renumbered ports* (`pi/cbs.c:197`). A shaper is written with the logical port and searched with the physical one, so
  that with other numbers the shaper that "already exists for this port & prio" (line 315) is never found. In the mapping the driver is built
  with (`pi/config.c:57`) they differ for every port, in the example device tree for all but the first; `MCServices.cfg` with a `MCCbsPorts` of that kind, say
  `physicalPort |-> 1 - l`, violates `ReservationsCounted`.

## 6. What is not modelled

* *Concurrency inside calls.* Calls are atomic, except those of PTP, probing and the completion of time stamps, which are
  sequences of steps. Callers that interleave between setting up a route and sending
  the frame, or between the transfers of a table command, are listed as hazards: what can happen there depends on
  preemption points and buffers of the host that the sources do not show. So are probes at the same time.
* *Use of popped frames.* The caller's pointers into the ring are not followed.
* *Unreported failures.* The Linux SPI callbacks return success whatever happened (`sja1105p_spi_linux.c:141`); the
  models with failing transfers assume that a failure is reported. For the same reason the early return of the final initialisation when
  the configuration cannot be read back (`sja1105p_init.c:549`) is not modelled: no callback reports such a failure. Nor does any transfer of the
  address resolution table, the VLAN tables and the shapers fail in the models.
* *Frames to addresses that no filter traps* (`pi/ethIf.c:637`): they are sent without a route, and the models of routes leave them out, supposing that no
  route is set up for such an address.
* *Masked entries*: an entry of the address resolution table is written with a mask (`pi/addressResolutionTable.c:437`) that is taken to mean an exact match, as its comment says.
* *Parts of modelled components*: registering callbacks and initialising the switch interface (assignments before
  use); pads, transmit delays and the start of SGMII (electrical configuration, of which the registers are modelled);
  dumping the forwarding database and the counters (they copy); creating net devices and work queues;
  the formula of the idle slope.
* *Left out for good:* CRC and the configuration stream (bytes in, bytes out), diagnostics and statistics (copy
  counters), debugfs, and parsing of the configuration file. They keep no state that the rest depends on.

The instances keep away from the following, which the sources show without a model.
Most are hazards in `PROJECT.json`, or noted with one; the last item is about parts without a model:

* a frame that wraps around the end of its ring is stored modulo the size of the ring and handed out as a pointer and a
  length (`pi/ethIf.c:840`);
* whether an address includes a source port is only recorded if a meta frame follows; otherwise an
  earlier frame decides (`pi/ethIf.c:319`, `359`);
* a source port is compared with the host port without regard to its switch (`pi/ethIf.c:958`);
* removing switches in another order decrements the count all the same (`sja1105p_init.c:718`), and
  masks of logical ports are never cleared (`pi/config.c:426`);
* the pads of the auxiliary configuration unit: the setter and the getter place two hysteresis fields in bits 10
  and 11, one of which is another field's (`NXP_SJA1105P_auxiliaryConfigurationUnit.c:231`);
* a full reservation looks like a free shaper, the product of the idle slope has 32 bits (`pi/cbs.c:261`), and deregistering checks neither that a stream
  was registered, nor that its priority has a class measurement interval, by which it divides (`pi/cbs.c:158`);
* the divider of SGMII ports and of MII ports in the role of a PHY at 100 Mbps (`pi/portConfig.c:526`, `447`);
* of several PTP masters only the last is followed, and the others are not synchronised (`pi/ptp.c:272`);
* each burst of up to 64 words of the built-in configuration is written one word after the start of the one before (`NXP_SJA1105P_configStream.c:100`), and
  `rtnl_is_locked` tells that someone holds the lock, not who (`sja1105p_switchdev.c:341`).

## 7. Plan

The safety properties of all runs have theorems, but for `ReservationsCounted`. What could be proved beyond that: what `MetaFrames` keeps with losses on
a line of several switches, which part of the retagging entries survives an error of one switch (`~StoreErrors` is the
hypothesis to weaken), that shapers are counted where port numbers agree, and what `EgressService` would have to promise for setups that fail while writing.

Possible extensions of the models: sending split from the setup of its route; routes and table commands of two
callers on one register interface; failing transfers in `ArlTable`. Each weakens properties that hold now; the question
is which survive.
