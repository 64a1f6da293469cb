# Verification of the PA-5200 platform

TLA+ models of the stateful, concurrent and failure-prone parts of the PA-5200
platform code, checked with TLC on small instances and, for most components,
proved with TLAPS for every value of the constants. `PROJECT.json` lists
components, runs, mutants, the source lines every definition stands for,
hazards, findings and theorems. Source paths below are relative to `src/`.

## 1. The system

Three processors share one chassis. The management plane (MP, x86) runs the
operator-facing Python in `management/`, the configuration agent in `control/`
and host tools in `tools/`. The control plane (CP, OCTEON) owns the BCM88375
switch and the FE100 offload FPGA (`fe100/`, `octeon/bcmagent`, `octeon/kctl`,
`octeon/debian`). The data plane (DP, OCTEON) forwards packets
(`octeon/dpfwd`, `octeon/native`) and has no network of its own: it talks to
the CP through memory shared over PCIe (`octeon/dpnet2`, `octeon/transport`).
The MP in turn reaches the CP's memory over PCIe (`octeon/pcnet`, `tools/`).

| Component (module) | State | Operations | Hard behaviour |
|---|---|---|---|
| FE100 session owner (`Fe100Sessions`) | sqlite rows, memory, the FE100 flow table | install, remove, recover, restart | two-directional writes, each of which may fail with unknown effect; crash anywhere; other owners of the table |
| Flow-ID namespace (`Fe100FlowNamespace`) | generation, counter, archive rows | ensure, rollover, reserve_pair | one logical step made of several transactions; reboots in between |
| Admission stack (`Fe100Admission`) | leases, dependency index, policy phase, path records, next-hop and source-MAC tables | start, tick, events, replace and what each layer does for them | dependencies change between any two reads; nested error paths over four layers |
| FE100 commissioning (`Fe100Commission`) | stage journals of each boot, device registers, calibration that no register shows | boot runner, recovery stages, warm grant, session handle | a stage killed half way, a warm reboot, a cached verdict |
| FE100 guardian (`Fe100Guard`) | owner's journal, fence, rules, redirects | prepare, fence, ordered withdrawal | either side dies between any two steps; the switch daemon restarts |
| Session observations (`SessionStream`) | producer table, frames, three receivers | dump, events, frames, disconnects | loss, gaps, late disconnects |
| Processor restarts (`PlaneRestart`) | `state.json`, per-role journals, unit states, boot identities | submit, worker, boot owners, CP's boot of the DP | four concurrent actors, every wait a deadline, owner outlives worker |
| CP boot from the host (`CpBoot`) | flock, console log, BAR window, CP DRAM | two boot scripts, their workers, broker, a tool | lock held by an inherited descriptor, watcher of a log, window moved without the lock |
| CP-DP packet tunnel (`DpnetRing`, `FifoChannel`) | head, tail, slots | push, pop, region initialisation | no lock, wrap, restart in mid-access |
| CP-DP commands (`CpdpTransport`) | request and reply ring, both sides' indices | call, wait_ready, daemon poll | timeouts that leave requests behind, restarts, wrap |
| MP-CP packet tunnel (`PcnetRing`) | head, tail, slots | push, pop, host initialisation | the same, with garbled slots |
| Fabric owners (`FabricOwners`) | three owners' journals, queues and redirects of the switch | start, stop, probe, lease, sweep, recover | deaths between journal and switch, restart of the switch daemon, ambiguous operations |
| Port daemon (`PortTable`, `AggregateOwner`) | wanted and attached ports, aggregate configuration, helper processes, intent file | requests, reconcile, tick, helpers, watchdog | hang, restart, half-done helpers, leases |
| Link aggregation (`LacpEngine`) | per-member machines, gates | PDU, tick, link, gate driver | lost partners, failing gate driver, waits |
| Packet owners (`PacketOwner`) | threads, barrier, engine pointer | burst, pause, reload, stop | engine replaced under running threads |
| Switch daemon (`SwitchDaemon`) | shell session, lock, trunks | client commands, timeouts, restart | late answers, a shell that never becomes ready again |
| Switch kernel driver (`BdeDriver`) | interrupt line, mask flag, DMA pool | load, ioctls, handler | unbalanced mask, message interrupt that fails late |
| Transceiver cages (`SfpCages`) | pins, switch port, journal, watcher | administrator's operations, re-link, check | partial failure, stale verdicts |
| Forwarder (`DpFib`, `DpNeigh`, `DpFlow`, `DpScan`, `DpPorts`, `DpBuffers`) | hash tables, automaton state, port table, buffers | route and neighbour changes, packets, sweep, scan, commands, poll loop | deletion from an open-addressed table, streams cut into packets, several cores |
| DP packet driver (`DpTrunk`) | preparation steps, 4 KiB blocks, queues | open, transmit, completion, receive, close | completion racing close |

`FfnCommon` holds the one value modules share (`None`). The components not
modelled, and why, are under `components` in `PROJECT.json`; section 6 lists
what is left out of those that are.

How they interact: the admission stack calls down to the session owner, whose
promises `Fe100Admission` restates as a table; the session owner draws its
identifiers from the namespace and needs a commissioned FE100
(`Fe100Commission`); observations drive admission. The fabric owners, the
packet lab's guardian and the cages all use the switch daemon, which uses the
kernel driver. `PortTable`, `AggregateOwner`, `LacpEngine` and `PacketOwner`
live in one daemon. Each module models its neighbours by what they may answer:
a call that fails, takes effect or not, or returns something else next time.

## 2. How the project is built

**Modules.** One module per component, with its state, `...Init`, one action
per handler or step, `...Next` and `...Spec`. A call that is one step of the
program for everybody else (under a lock, or in one thread) is one action; a
call that can be interrupted is one action per durable write, hardware access
or shared-memory access. A definition whose comment begins with "Mutant:" is
not part of any specification: it is the wrong version of the definition it
stands before, used to confirm that a property notices that slip in the code.

**Names.** A state variable or action keeps the source's name where it can;
prefixes (`Fab`, `Cpb`, `Sfp`, ...) tell apart what several modules have.

**Runs.** Five harnesses instantiate the components:

| Run | Harness | Components |
|---|---|---|
| `fe100` | `MC_Fe100` | `Fe100Sessions`, `Fe100FlowNamespace`, `SessionStream`, `Fe100Commission`, `Fe100Guard` |
| `platform` | `MC_Platform` | `PlaneRestart`, `DpFlow`, `BdeDriver`, `SfpCages` |
| `dataplane` | `MC_Dataplane` | `DpFib`, `DpNeigh`, `DpBuffers`, `DpScan`, `DpPorts`, `DpTrunk`, `DpnetRing`, `CpdpTransport`, `FabricOwners`, `PcnetRing` |
| `ports` | `MC_Ports` | `AggregateOwner`, `PortTable`, `LacpEngine`, `PacketOwner`, `SwitchDaemon` |
| `control` | `MC_Control` | `Fe100Admission`, `CpBoot` |

The components of a harness share no variables, so interleaving them would
multiply their states and show nothing. A variable `focus`, chosen in the
initial state, names the one that moves; the others keep their initial state.
Every behaviour of every component (with the harness's constants) is a
behaviour of the harness. A component's fairness holds for it while it has the
focus, and its liveness properties are stated under that condition (`MC...`).
Seven more runs each show one disagreement with the sources (section 4).

Faults (failed calls, deaths, restarts, garbled memory) are counted by a
variable and bounded by a constant: without it the number of failures would be
the only unbounded part of most models. One to three of them reach the cases
of interest: the first leaves something half done, the second hits the
cleanup, the third the cleanup after a restart. Deadlock is not checked,
because these components may rest when their bounds are used up.

## 3. What each run checks

A property that ends in `Safe` is the conjunction of the named parts given
with it (and of the module's type invariant).

### 3.1 `fe100` - the owners of the FE100

Bounds: two sessions over two keys, one policy revision, five identifiers (two
pairs and an odd one left over), two faults; three boots, a range of odd size
and three faults for the namespace; one conntrack identity in two versions,
queues of one and two, three events and one fault for the observations; one
flow memory, two boots, two faults for commissioning; two guardian starts, two
faults. Two sessions make one meet the leftovers of another; a second boot is
what a stale generation or calibration needs.

| Property | States |
|---|---|
| `SessionsSafe` | `JournalCoversHardware`: an entry the owner wrote is named by a journal row, between a failed call and its undo and after a crash too. `SteadyPairs`: at rest, without pending recovery, memory, journal and table agree and both directions forward. `FlowIdsUnique`. |
| `ForeignPreserved` | no step of the owner changes another owner's entry. |
| `NsSafe` | `NeverReused`: a pair issued in this boot lies below its durable counter. `ArchiveAccounts`: the archive tells what a retired generation had issued. `PairsDisjoint`. |
| `ObsSafe` | `NoLostChange`: dump and queued events always make up the table. `PrefixHeld`: a receiver holds a prefix of what was published. `SameView`, `SessionKept`: relay, bridge and owner agree between frames, and a relay session ends only for a fault of its own. |
| `ComSafe` | `ReadyIsCalibrated`: a device that reads as initialized has every flow memory calibrated, however training failed, was cut off, recovered, reset or carried over a reboot. `GrantIsCalibrated`: a warm grant counts for the memory it was issued for. `CacheFresh`: the records a handle read once are those of now. |
| `NoLiveTraining` | memory is trained only while it holds nothing and nobody has the device open. |
| `GrdSafe` | `OwnerFenced`: while a withdrawal runs no owner acts. `DrainedIsTrue`: "drained" leaves no session, table, rule, redirect or request on its way. `RedirectBacked`: redirects lead only into tables and rules that are there. `DeletedOnce`. |
| `Fe100Progress` | the session owner keeps coming back to a state that may admit, unless another owner holds its key; observations recover; every start of the commissioning unit ends; a stalled owner is fenced. |

Fairness: the owner's own steps and systemd's restarts are weakly fair;
`recover` is strongly fair while it is required, because `ffn_fe100_controld.py`
reconciles every two seconds between requests and a request in between may
disable it for a moment, not for ever. The observation producers and receivers
poll in loops; the guardian and the switch daemon are restarted by systemd.

### 3.2 `platform` - restarts, flow table, interrupt line, cages

Bounds: two restart jobs, one death or spontaneous reboot (an owner of the
first job meets the second); three flow keys, one a fragment's, over four
slots with a window of two (collisions, eviction, wrap-around), one scan per
flow, policy banks that allow, drop and inspect; two interrupt events, one
core, and six pages of memory, so that a reserved range may have holes, RAM or
both at its ends; one module that identifies and one that never
does, one swap and one bus fault.

| Property | States |
|---|---|
| `RstSafe` | `OneResetPerJob`: no reset is retried. `OwnerOfLatestJob`: an owner that outlived its worker belongs to the latest job. `WritersHeldBack`: the paused services run only when every dispatched reset is verified. `SuccessIsNewBoot`. |
| `FlowSafe` | `FlowsFindable`: an entry lies in its window with no gap before it, and a flow has one entry. `AllowedByPolicy`: a cached permission is one the active policy gives, under a default in force since the last flush. |
| `ConvictionSticks` | as long as the entry stays, a drop or reset verdict does. |
| `BdeSafe` | `MaskBalanced`: on one core the mask flag is what the line is. `MaskHolds`: on any number, a line whose flag is set, and that nobody is about to change, is off. `RouteReachesHandler`. |
| `SfpTypeOK`, `SfpSteps` | the lock belongs to who is inside; `JournalTrue`: a journal is closed only on what MAC and laser do. `PendingFreezes`: an open one keeps the watcher off the port. `MemberUntouched`: a member of an aggregate is left alone. |
| `PlatformProgress` | restart requests do not stay refused; an idle flow is reclaimed; threads waiting for an interrupt keep nobody out and are served; the transmit check is not starved by one module. |

Fairness: workers and owners take their steps, each of whose waits has a
deadline in the code (worker's unit 2500 s, `systemctl` the role's timeout,
boot wait 600 s) and expiry is one of the steps; hardware commands run without
one and are assumed to end; nothing is assumed of processors. The forwarder
polls for ever, the interrupt thread of the SDK runs, the watcher and the
faceplate process take their steps.

### 3.3 `dataplane` - forwarder, drivers, tunnels, fabric

Bounds: four prefixes of a two-bit address space that collide in four slots;
three neighbours in four slots, two probes; two cores and two buffers;
an alphabet of two bytes, overlapping patterns of up to four, packets of
up to three; one port; two blocks; two-slot rings with counters modulo four
and enough frames or calls to wrap them; three deployments of
fabric owners ({physical, aggregate} on one port and {WAN} on the other with one
fault each, a restart of the switch daemon among them, and all three together
for two requests and two faults); the administrator may raise or lower either
port in each.

| Property | States |
|---|---|
| `FibSafe` | `LongestPrefix`: a destination goes where the longest configured prefix says, as long as no removal met an ECMP route or a table over its load limit. `NoDeadGroup`: no route leads to a freed group. |
| `ArpSafe` | every entry is found by its probe, a quarter of the slots stays free, and `RequestsSpaced`: two requests for one address are a retry interval apart, however entries are reaped and moved. |
| `ScanSafe` | `VerdictExact`: a packet is blocked if and only if a blocking pattern ends in it, across packets of a direction. `StateLongest`: the state carried over is the longest suffix that may still become a signature. |
| `BufSafe` | `NeverFreedTwice`, `NothingLeaks`: a buffer a core has is in exactly one of its queues. `QueuesResolved`. |
| `PrtSafe` | `OnlyDataUp`, `RunIsDriven`: a port that runs is up and its MAC enabled. |
| `TrunkSafe`, `PublishedKept` | `FreedOnce`, `ClosedIdle`; memory the hardware was told of stays. |
| `NetSafe`, `FifoSpec` | `NeverDropped`: space seen before the TAP read is there at the push. Without a restart the ring implements the lossless bounded channel `FifoChannel`. |
| `CpdpSafe` | `CleanExchange`: while the daemon stays up and no tool starts over a pending request, an answer belongs to its call and no request is carried out twice. |
| `PcnSafe` | `PcnIntact`: what is written to a TAP was read from the other. `PcnInOrder`: once and in order, unless the MP resets the ring under a CP that is at work. |
| `FabSafe` | `AmbiguousJournaled`: what is half built in this lifetime of the switch daemon is on record, whatever the owner of the other port does. `RedirectJournaled`, `RecordTrue`, `OneFabricOwner`. |
| `AmbiguousKeptDown` | a port is left half built only with its link down, and no owner raises a link over half-built queues; the administrator and a reset of the switch may. |
| `NeverBridged` | an aggregate's links are down before ordinary switching is restored. |
| `DataplaneProgress` | a full transmit queue drains or faults; the rings drain after the last fault; calls return; a lease that ran out closes its links. |

Fairness: the daemons' and cores' loops run and a started daemon reaches its
loop; nobody has to start a tool, make a call or give up; the watchdog and the
sweep of the fabric are timers (strongly fair, since a start in progress holds
their lock for a while).

### 3.4 `ports` - the port daemon and the switch daemon

Bounds: three revisions over two networks, leases of one or two units; two
ports and two aggregates that share a member; a
teardown that stops at any of its stages; two LACP members with a minimum
of two links and every deadline above its boundary under a passive
and an active engine; two packet threads and two
engine addresses (so that a freed address is reused); two clients.

| Property | States |
|---|---|
| `OwnSafe` | `DeliversApplied`: packets pass only over the interface as the applied revision describes it. `LeaseOfCurrent`: an aggregate that is ready on a DHCP lease goes by one with its own token, whatever an earlier owner left in the file. `OwnerHoldsAll`: nobody takes interface or journal from under a running owner. |
| `TabSafe` | `OneOwner`: what a live lease holds is neither attached nor wanted as a layer-3 port. `LeaseWhole`: a lease holds all its members or none. |
| `LacpSafe`, `FaultCloses` | `OneAggregator`: traffic is distributed over one partner system at one speed. `MinLinksHeld`, `SettledFirst`. Once a fault is latched no gate opens. |
| `PktSafe`, `ConfigQuiet` | no thread of a single port scans with an engine that was destroyed; what a burst reads does not change under it. |
| `BcmSafe` | `OwnAnswerWhileReady`: the text up to the prompt answers the command just written. `TrunkHeld`: an acknowledged trunk is intact until its owner destroys it. |
| `PortsProgress` | a stalled owner is retired, a request attempted, a wanted port attached, the carriers of a silent MP drop, the packet threads of a silent loop stop, waits end, clients are answered. |

### 3.5 `control` - admission, and booting the CP

Bounds: two sessions, revisions 0 to 2, two bindings, two indices, two faults;
both boot scripts with one start each, and one fault: a death, a vendor call that
fails, a restart of the console broker, or a start of `pcnet-up.sh` or of the tool
that takes no lock; it meets one script and its worker, of either kind (`CpbAlone`;
the proof has no such bound). Safety only. Sessions, plans
and bindings are only compared, so the run uses symmetry. A method of the
admission stack is an operator from the owner's state to the set of its
outcomes (a state, and whether it returned, raised or stopped), put together
with `Then`, `Catch` and `Each` in the Python's statement order.

| Property | States |
|---|---|
| `AdmSafe` | `NoDanglingHop`: an entry refers to a next hop, and that to a source MAC, programmed for this session and revision. `NoStaleGeneration`. `EveryFlowLeased`. `FailClosed`: a handler that raised left admission disabled. `CloseAcknowledged`: after an acknowledged close nothing is left. |
| `CpbSafe` | `VerifiedBoot`: Linux is booted from the kernel its worker staged and verified, also when a tool without the lock moves the window between the mapping and the copy; excepted are only what a tool itself writes over the image, and a verification read back through a moved window. `SameSession`: nobody resets the chip under a worker. `PersonalityHolds`: the FPGA personality a boot reported is still there. |

## 4. Findings

Each of these runs checks one sentence of the sources, quoted with the finding
in `PROJECT.json`, and TLC shows a behaviour of the code that contradicts it.

| Run | What the code does |
|---|---|
| `namespace_resume` | Generation and counter are committed by two transactions. If the second fails, every later `ensure()` of this boot finds the first, opens an allocator without a counter, and gives up until the CP reboots. |
| `planerestart_retention` | A restart after one that failed past its boot command overwrites the journal's list of paused services with those active now, which are none. |
| `bde_smp` | The interrupt handler sets the mask flag and disables the line in two steps; a re-arm on another core in between leaves the line off with the flag clear. |
| `sfp_relink` | The re-link takes the rate from the switch, which reads back what `auto` resolved to, so a slower module in a port committed to `auto` never gets a link. |
| `dpnet_replay` | A DP inside `ring_push` while the CP reinitialises the region publishes a head computed from the old counters; slots already delivered still carry a valid CRC and are delivered again. |
| `cpdp_stale_answer` | A tool started while the request of a timed-out predecessor is pending takes the reply to that request for its own; both are numbered 1 and the operation is not compared. |
| `packet_reload` | `aggregate_tick` destroys the inspection engine without pausing the packet threads that scan with it. |

Observations made while modelling and proving, which contradict no sentence of
the sources but which a maintainer should know:

- `AggregateOwner`: a recovery that fails between the nft table and the run
  files leaves no link but the earlier owner's `lease.json`. The next owner may
  set up over it; the daemon takes a lease only with its own token
  (`ffn_portd.c:1271`), so nothing is delivered by the old one, but the hook
  and the update worker refuse a file with another token, so the new owner gets
  no lease until its own shutdown unlinks the file (`ffn_portd.c:1933`). A start over the leftovers of a failed teardown overwrites
  the journal's token, so that the leftover interface is refused by every later
  teardown. The interface is created before the journal is written.
- `BdeDriver`: `ffn_bde_dma_setup` looks inside a range only when one of its
  ends is in the memory map (`ffn_bde.c:1327`); a pool whose ends are holes and
  that spans RAM is accepted, against the comments at `ffn_bde.c:120` and
  `:1285`. The model does as the code does, and the run contains such a range;
  no property claims that a pool is never live memory.
- `CpdpTransport`: with counters of width two "the ring is full" and "the ring
  is empty" look alike to a tool that opens it; the proof needs a larger width.
- `FabricOwners`: the administrator's enable is refused for the members of an
  aggregate and for no other port (`ffn_faceplate.py:209`); it looks at neither
  journal nor queues. That an ambiguous allocation stays down
  (`ffn_portctl.c:569`, `ffn_wan_forwarding.py:131`) therefore holds of the
  owners only, which is what `AmbiguousKeptDown` says. A record of what is half
  built lasts for a lifetime of the switch daemon: after a restart that did not
  reset the switch, the owner of the other port discards it when it prepares its
  own (`_ensure` in `ffn_packet_fabric.py`); a retry for the half-built port is
  still refused, by the look at its queues. A start that
  dies between redirect and commit is recovered only by a switch restart. A
  repeated aggregate stop closes the members again.
- `CpBoot`: `boot618-pcie.sh` stops `pcnetd` before it waits for the lock, and
  `pcnet-up.sh` run by hand releases the lock before it starts `pcnetd`, so the
  chip can be reset under a live writer. The log watch counts the last old
  line. `octctl boot`'s result is ignored. `cpdp` and the windowed DRAM access
  take no lock, so a tool can still write over a
  staged image, or move the window under the readback that verifies it:
  `VerifiedBoot` excepts these two (`cpbStray`). A copy that goes through a
  window moved after the check of its index is not excepted: the readback
  finds it.
- `PcnetRing`: a restart of the MP clears the CP's "up" flag, which a running
  CP does not set again; a reset under a running CP can deliver a frame twice.
- `Fe100Commission`: a SEM step that fails after FLU completed is reported as
  "already-initialized" by the next start; a tool that completes after its
  runner was killed makes the retry fail on its exclusive journal file.
- `Fe100Guard`: the switch daemon's lifetime is read once; a withdrawal across
  a restart of it deletes identities of the earlier lifetime.
- `SfpCages`: the remedy that enables a transmitter uses a verdict taken
  without the lock; a recipe that fails midway leaves the MAC disabled and
  nothing journaled.
- `DpFib`: the load limit of three quarters is checked for a route with one
  next hop only (`dp_l3_route_add`), not by `dp_l3_route_add_ecmp`. Where ECMP
  routes took the table past the limit and were then replaced by simple ones, a
  removal puts the rest of its cluster in again through `dp_l3_route_add`,
  which answers FULL for some: eight such routes with one home in eight slots
  are six after one removal. `LongestPrefix` excludes tables over the limit;
  the proof showed that it has to.
- `DpNeigh`: a removal puts an unresolved entry of its cluster in again as
  reachable with an all-zero MAC (`dp_l3_neigh_del` calls `dp_l3_neigh_add`).
- `DpFlow`: removal from a completely full table may go around it several
  times, up to the size of the probe window; that it ends was not obvious from
  the code and is now proved.
- `DpFib`: if a removal meets an ECMP route whose group can be put nowhere,
  the route is lost (`LongestPrefix` excepts this).

## 5. Proofs

Eight modules hold the theorems. The results a reader should know of are
listed under `theorems` in `PROJECT.json`; every `Safe` property of section 3
is proved, for every value of the constants that satisfies the named
assumptions of its module, except those listed at the end of this section.
Each proof has the same shape: an inductive invariant `...Inv`, a lemma for
the initial states, one lemma per action (or per conjunct an action can
disturb), and a temporal theorem. What makes each invariant inductive:

**`Fe100Proofs`.** *Session owner:* flow IDs in use lie below the cursor and
the pair being installed is new (`IdsHandedOut`); memory and journal hold the
same sessions while the owner runs (`MemoryMatches`); the row being worked on
is the journalled one (`ReqMatches`); what the two slots can hold at every step
of an installation (`InstallSlots`) and of a removal (`RemovalScope`); every
session but the one being worked on forwards both ways (`OthersForward`).
*Namespace:* a counter belongs to the journalled generation, a generation of
the current boot is never rolled over, the allocator is open only on this
boot's counter (`JournaledTogether`), and pairs were issued under a generation
that still accounts for them (`IssuedUnderGeneration`). *Observation stream*
(`ObsInv`): what each end of a session can hold at each of its steps
(`ObsShape`); unless an overflow was noted, the producer's view with its queued
events applied is the kernel's table, which is `NoLostChange` (`ObsEvents`);
the frames between two ends are the ones that take the receiver's view to the
sender's (`ObsLine`), from owner to relay to bridge to producer (`ObsChain`);
a session that ended was charged to a fault (`ObsFaultsPaid`). A queue of
frames is a run of a recursive function; `FfnLemmas` says that its values
exist, are unique and compose.

**`ControlProofs`.** *Admission:* a method is an operator from a state to its
outcomes, so each has one lemma that says what may be true of an outcome, by
how it ended; a caller's lemma is composed from those of the methods it calls,
in the order of the Python statements. What holds between any two methods, at a
failure or a stop included, is `AdmGood`: an entry of the table leads to its own
next hop and source MAC (`AdmWired`), a row and its dependency are of one
revision (`AdmAgree`), unless recovery is due only sessions with a row are in
the dependency index (`AdmIndexed`: this is why `drain` may trust the index),
and while the policy is active every row is current (`AdmCurrent`). The methods
that only take away also keep what the lifecycle holds at rest, that leases
cover the rows and that admission is enabled under a producer only (`AdmKept`);
those that admit change one session's row (`AdmGrown`) and restore it by the
lease. A fence that completes leaves no row (`AdmFenceOut`), which is why an
activation meets none of another generation; a reconciliation that completes
leaves only paths of indexed sessions (`AdmSwept`), which is why an acknowledged
close has left no path. A loop in any order is a recursive function on the
subsets of a finite set (`AdmLoop`), shown to exist and reasoned about by
induction on cardinality. *Restarts:* the lock lets one owner past its
inspection (`OwnersExclude`) and its services are stopped beyond the pause
(`OwnersPause`); a non-empty restore list was taken when no reset was in doubt
(`ListTakenClean`), which is why an owner may start services again; the
worker of the latest job holds `state.json` (`WorkerHolds`, `WorkersInOrder`);
a reset is due only where none was carried out (`ResetDue`); boot identities
only advance (`BootsAdvance`). *CP boot:* for each script and its worker, what
the pair may be doing together (`CpbPair`, `CpbInStep`), what is in the segment a worker has verified unless
`cpbStray` (`CpbStaged`), that
the lock has one holder, and what has been sent to the console.

**`PortsProofs`.** *Port table:* a daemon that is down holds nothing. *LACP:*
each member's machines agree with the aggregator, and every wait that is not
over has its timer. *Switch daemon:* what the shell has printed belongs to the
command that is being answered unless the session is marked; two owners never
configure the same trunk differently (`BcmAssumption`). *Packet owners:* who
may still be in a burst while the barrier is up. *Aggregate owner:* what is on
record at every step of a helper's work and at every stage of a teardown, and
that the lease a ready aggregate goes by has its token, whatever the file holds.

**`DataplaneProofs`.** *Rings:* the distance of the indices is at most the
ring's size, what each side has read is no more than it may rely on, and a
slot below the head holds the frame of its number; arithmetic modulo the
counter width comes from `FfnLemmas`. `DpnetRingIsFifo` is the refinement of
`FifoChannel`. *Packet driver:* a block is in one place; accepting work implies
that the device is up, and a closed one has nothing pending. *Inspection*
(`ScanInv`): the state of a direction is the longest of the automaton's states
that its bytes end with, and the last `MaxPat` bytes are enough to tell. The
argument is that of the construction itself: what a sequence ends with is known
from its longest state (`LongestAppend`, `LongestEnds`), which is why the
failure states and completed transitions of `dp_aho_compile` solve its
recursion and nothing else does (`ScanTableIs`), a state's chain of matches is
exactly the patterns it ends with (`ScanOutIs`), and the byte loop with its
early stop finds what a search of the whole stream finds (`CtdScanIs`).

**`ForwarderProofs`.** *Ports:* tables and rings keep their types for any
well-formed commands. *Buffers:* a buffer a core has is in exactly one of the
places it can be (`BufApart`, `BufPlaced`), and it has owned it since it took
it from the pool (`BufOwned`). *Flow cache* (`FlowInv`): every slot from its
home to an entry is used and within the window, and no two entries have one key
(`FlowWell`); a lookup, an insertion and an eviction follow from that. For a
removal the walk keeps every other entry reachable and apart from the hole
(`FlowHeld`), and each round of the table brings every entry a slot nearer to
its home, so that no more than a window of rounds is needed (`FlowProgress`).
*Routing and neighbour tables:* both are the same table, open-addressed and
probed round the whole of it, where a removal clears the slot and puts every
entry up to the next free slot in again; one theory of it (`Hash...`) serves
both. Its invariant is that no slot between an entry's home and the entry is
free and that a key has one entry (`HashWell`); while a removal walks, only
probes that reach past the walk may meet a slot it has freed, and what it has
not visited is as it was (`HashWalk`). The load limit is what gives every probe
a free slot to end at, and every entry of the walk its room. The routing table
then holds what was asked for, unless `holed` (`FibInv`); an address whose
request is still young has an entry that says so, whatever was moved or reaped
(`ArpInv`).

**`FabricProofs`.** *Guardian:* each of its phases tells what the owner may
still be doing and what the journal and the switch still hold. *Fabric owners:*
locks are held exactly by who is inside (`FabCore`), what each owner has
journaled at each of its steps, and that a lifetime on record is not in the
future; `FabAmb` adds what may be half-built where and under which record, and
that an owner at work on a port keeps its link down.

**`ControllerProofs`.** *Commissioning:* recoveries form a chain, a failed or
killed calibration leaves a stage that never reads completed, and a warm grant
with FLU or SEM on forbids any further calibration (`ComInv`). *Kernel driver:*
who is between the mask flag and the line, on one core (`BdeInv`) and on any
number (`BdeAny`). *Cages:* past its check an
operation's request is the pending one, and nobody else claims the port
(`SfpInv`).

**`FfnLemmas`.** Counters that wrap, one element of a sequence replaced, the
least number with a property, induction over the naturals (from the
well-founded minimum, because the library's induction theorem takes an operator
no prover here can instantiate) and the values of a run defined by recursion.

Assumptions on constants are named in the module that declares them: bounds are
natural numbers, `None` is none of the values it is compared with, a counter's
width is a multiple of the ring's size and greater than two, sets of ports,
blocks, members and sessions are finite, a pattern is not empty and its action
is a verdict. No theorem has
a hypothesis beyond these; `BdeLineSafe` claims `MaskBalanced` for one core only,
since for several there is the finding `bde_smp`.

**Model-checked only.** The `Progress` properties: liveness under fairness is
out of this prover's reach. Every other property of a passing run is a theorem,
or a part of one. The inductive invariants of all proved components were checked with TLC first.

## 6. Abstractions and what is not modelled

- A sqlite transaction (synchronous=FULL) commits, rolls back with an error or
  is cut off without effect; corruption of a file is not modelled. A journal
  replaced by rename is replaced or not.
- An FE100 table entry is its key, its flow ID and whether the action is
  present; encodings are left out. The policy digest travels with the revision.
- The single-tuple `PolicyOwner.admit` that predates path ownership, and the
  boot digest in a path record, are not modelled.
- Paused MP services are started and stopped together. Image activation,
  commissioning files and image checks are not modelled.
- The operations the DP daemon executes are one step that counts executions.
- TAP devices are sources and sinks of frames; their set-up, the programming of
  the PEM windows and statistics are left out.
- Packets are what a decision looks at: a destination, a flow key, the bytes of
  an alphabet of two. Header rewriting, checksums and punt formats are left out.
- Control-socket framing, JSON and formatting are left out everywhere.
- Lock time limits of the fabric owners, the LACP marker protocol and copper
  ports are not modelled.
- Liveness properties that cost too much for their value were dropped:
  draining of an admission owner without a producer, the end of a fabric probe,
  the release of the switch daemon's lock, the sending of an LACP frame that is
  due.
- Everything listed `not_modelled` in `PROJECT.json`, with its reason.
