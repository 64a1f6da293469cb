---------------------------- MODULE FabricOwners ----------------------------
(* The CP owners of front-port redirects: the physical owner of one port    *)
(* (ffn_portctl.c), the WAN owner of port 1 (ffn_wan_forwarding.py) and the *)
(* aggregate owner (ffn_aggregate_hardware.py), which share the packet      *)
(* fabric's allocation journal (ffn_packet_fabric.py) and the switch.       *)
(*                                                                          *)
(* Each owner is one process at a time, by its own lock; a process may die  *)
(* anywhere and its locks with it.  An SDK recipe is one step.  A request   *)
(* with a stale revision, epoch or owner token is refused before it does    *)
(* anything and is left out.                                                *)
EXTENDS FfnCommon, Integers

\* A deployment: the owners in use together (who), the DP boots they see, and the
\* bounds of its run: the requests (asks; None is no bound) and the faults.
CONSTANTS FabDeployments,
          FabBoots, FabMaxFaults   \* DP boots; deaths, half-done allocations, lost leases and BCM restarts (bounds)

ASSUME FabAssumption == FabMaxFaults \in Nat /\ \A d \in FabDeployments : d.faults \in 0 .. FabMaxFaults
\* "none" is no resource, no operation and no owner.
ASSUME FabNoneAssumption ==
  None \notin {"header", "t", "p", "w", "start", "stop", "prepare", "finish", "expire", "abort", "recover", "probe",
              "phy", "wan", "agg"}

VARIABLES
  fabChip,       \* the switch and the lifetime of its owner (epoch())
  fabJ,       \* packet-fabric.json
  phyJ,       \* physical-<port>.json
  wanJ,       \* the WAN owner's state
  wanTimer,   \* the watchdog of a probe is armed
  aggJ,       \* the group of aggregate-hardware.json
  fabFace, fabLock,
  fabProc,    \* fabProc[o]: the process of owner o
  fabWho,     \* the deployment, and the requests left
  fabFaults

fabVars == <<fabWho, fabChip, fabJ, phyJ, wanJ, wanTimer, aggJ, fabFace, fabLock, fabProc, fabFaults>>

FabOwner == {"phy", "wan", "agg"}
\* The physical owner and the aggregate want the same port.
FabPort == {"p", "w"}
PortOf(o) == IF o = "wan" THEN "w" ELSE "p"

\* before: the link was up when it was withdrawn; seen: the queues and the
\* header as first observed; closing: an aggregate's cleanup.
FabIdle == [pc |-> "idle", op |-> None, life |-> 0, boot |-> None, before |-> FALSE, seen |-> None]
AtPc(o, pc) == fabProc[o].pc = pc
FabGoto(o, pc) == fabProc' = [fabProc EXCEPT ![o].pc = pc]
Drop(lock, o) == IF lock = o THEN None ELSE lock
\* The process ends; the kernel drops its locks.
Finish(o) ==
  /\ fabProc' = [fabProc EXCEPT ![o] = FabIdle]
  /\ fabFace' = Drop(fabFace, o) /\ fabLock' = Drop(fabLock, o)
Locks == <<fabFace, fabLock>>
FabJournals == <<fabJ, phyJ, wanJ, wanTimer, aggJ>>
\* The lifetime of the switch: the one ffn_bcmd and its start.
FabEpoch == fabChip.life
Fenced(o) == fabProc[o].life = FabEpoch
AggOwns == aggJ.phase # "stopped"

\* ---- the journaled allocation ----------------------------------------------

SpoiltFabric == fabJ.life = fabChip.life /\ fabJ.pending # None

\* ensure(): the lock, the fence, the journal, the first look at every queue.
FabBegin(o) ==
  /\ AtPc(o, "fabric") /\ fabLock = None
  /\ IF /\ Fenced(o) /\ ~SpoiltFabric
        /\ \A x \in {"t", PortOf(o)} : fabChip.q[x] \in {"none", "ok"}
        /\ fabChip.header # "ssp" => \A x \in DOMAIN fabChip.q : fabChip.q[x] = "none"
     THEN /\ fabLock' = o /\ UNCHANGED fabFace
          /\ fabProc' = [fabProc EXCEPT ![o].seen = [q |-> fabChip.q, header |-> fabChip.header],
                                        ![o].pc = IF fabChip.header = "ssp" THEN "q1" ELSE "head"]
     ELSE Finish(o)
  /\ UNCHANGED <<fabChip, FabJournals, fabFaults>>

\* Mutant: an owner that settled the step before does not write the next intent.
IntendOnce(o, what, pc) ==
  IF Fenced(o) THEN FabGoto(o, pc) /\ UNCHANGED <<fabJ, Locks>> ELSE Finish(o) /\ UNCHANGED fabJ
\* The intent is durable before the SDK is called.
Intend(o, what, pc) ==
  IF Fenced(o) THEN FabGoto(o, pc) /\ fabJ' = [life |-> fabProc[o].life, pending |-> what] /\ UNCHANGED Locks
  ELSE Finish(o) /\ UNCHANGED fabJ
\* A verified change under the same owner of the switch clears the intent.
FabSettle(o, holds, pc) ==
  IF Fenced(o) /\ holds THEN FabGoto(o, pc) /\ fabJ' = [fabJ EXCEPT !.pending = None] /\ UNCHANGED Locks
  ELSE Finish(o) /\ UNCHANGED fabJ

FabHeader(o) ==
  \/ /\ AtPc(o, "head") /\ Intend(o, "header", "headSet") /\ UNCHANGED <<fabChip, phyJ, wanJ, wanTimer, aggJ, fabFaults>>
  \/ /\ AtPc(o, "headSet")
     /\ IF fabChip.header = "ssp" \/ \A x \in DOMAIN fabChip.q : fabChip.q[x] = "none"
        THEN fabChip' = [fabChip EXCEPT !.header = "ssp"] /\ FabGoto(o, "headDone") /\ UNCHANGED Locks
        ELSE Finish(o) /\ UNCHANGED fabChip
     /\ UNCHANGED <<FabJournals, fabFaults>>
  \/ /\ AtPc(o, "headDone") /\ FabSettle(o, fabChip.header = "ssp", "q1")
     /\ UNCHANGED <<fabChip, phyJ, wanJ, wanTimer, aggJ, fabFaults>>

\* The trunk first ("q1"), then the port ("q2").
QueueOf(o) == IF fabProc[o].pc \in {"q1", "alloc1", "done1"} THEN "t" ELSE PortOf(o)
FabAfter(o) == IF QueueOf(o) = "t" THEN "q2" ELSE "verify"
\* The recipe allocates the connectors and the queues of one port, or fails in the
\* middle and leaves some behind: "part" when that was meant for this lifetime of
\* the switch's owner, "old" when it began in an earlier one (the switch itself
\* knows no difference).
HalfBuilt == {"part", "old"}
AllocateQueues(o) ==
  /\ fabProc[o].pc \in {"alloc1", "alloc2"}
  /\ IF fabChip.q[QueueOf(o)] # "none" THEN Finish(o) /\ UNCHANGED <<fabChip, fabFaults>>
     ELSE \/ /\ fabChip' = [fabChip EXCEPT !.q[QueueOf(o)] = "ok"]
             /\ FabGoto(o, IF AtPc(o, "alloc1") THEN "done1" ELSE "done2") /\ UNCHANGED <<Locks, fabFaults>>
          \/ /\ fabFaults < FabMaxFaults /\ fabFaults' = fabFaults + 1
             /\ fabChip' = [fabChip EXCEPT !.q[QueueOf(o)] = IF Fenced(o) THEN "part" ELSE "old"] /\ Finish(o)
  /\ UNCHANGED FabJournals
FabQueues(o) ==
  \/ /\ fabProc[o].pc \in {"q1", "q2"}
     /\ IF Fenced(o) /\ fabProc[o].seen.q[QueueOf(o)] = "ok" THEN FabGoto(o, FabAfter(o)) /\ UNCHANGED <<fabJ, Locks>>
        ELSE Intend(o, QueueOf(o), IF AtPc(o, "q1") THEN "alloc1" ELSE "alloc2")
     /\ UNCHANGED <<fabChip, phyJ, wanJ, wanTimer, aggJ, fabFaults>>
  \/ AllocateQueues(o)
  \/ /\ fabProc[o].pc \in {"done1", "done2"} /\ FabSettle(o, fabChip.q[QueueOf(o)] = "ok", FabAfter(o))
     /\ UNCHANGED <<fabChip, phyJ, wanJ, wanTimer, aggJ, fabFaults>>

Redirect(x, on) == fabChip' = [fabChip EXCEPT !.fwd[x] = on]
SetAdmin(x, on) == fabChip' = [fabChip EXCEPT !.up[x] = on]
SetTrunk(lag) == fabChip' = [fabChip EXCEPT !.lag = lag]
Provisioned(x) == fabChip.header = "ssp" /\ fabChip.q["t"] = "ok" /\ fabChip.q[x] = "ok"
\* The last readback; then back to the owner that asked.
FabVerify(o) ==
  /\ AtPc(o, "verify")
  /\ IF Fenced(o) /\ Provisioned(PortOf(o))
     THEN IF o = "agg" THEN Finish(o)
          ELSE /\ fabLock' = None /\ UNCHANGED fabFace
               /\ fabProc' = [fabProc EXCEPT ![o].pc = IF o = "wan" THEN "restore" ELSE "intent", ![o].seen = None]
     ELSE Finish(o)
  /\ UNCHANGED <<fabChip, FabJournals, fabFaults>>

\* ---- the physical owner ---------------------------------------------------------

\* The port's lock, the faceplate lock, the lifetime.
PhyBegin(op, boot) ==
  /\ AtPc("phy", "idle") /\ fabFace = None /\ fabFace' = "phy"
  /\ fabProc' = [fabProc EXCEPT !["phy"] = [FabIdle EXCEPT !.pc = "look", !.op = op, !.life = FabEpoch, !.boot = boot]]
  /\ UNCHANGED <<fabChip, FabJournals, fabLock, fabFaults>>

PhyOwned == phyJ.life = fabProc["phy"].life /\ phyJ.on /\ phyJ.pending = None
PhyIntent(op) ==
  phyJ' = [life |-> fabProc["phy"].life, boot |-> fabProc["phy"].boot,
           on |-> op = "stop" /\ fabChip.fwd["p"], pending |-> op]

\* Mutant: the link is left as it is.
WithdrawNot(o) == fabProc' = [fabProc EXCEPT ![o].before = fabChip.up[PortOf(o)], ![o].pc = "fabric"] /\ UNCHANGED fabChip
\* The link is down before the first redirect, and the readback says so.
Withdraw(o) ==
  /\ fabProc' = [fabProc EXCEPT ![o].before = fabChip.up[PortOf(o)], ![o].pc = "fabric"]
  /\ SetAdmin(PortOf(o), FALSE)

PhyLook ==
  /\ AtPc("phy", "look")
  /\ LET p == fabProc["phy"]
         refused == \/ AggOwns \/ (fabChip.fwd["p"] /\ ~PhyOwned)
                    \/ (p.op = "stop" /\ fabChip.fwd["p"] /\ phyJ.boot # p.boot)   \* "stale DP owner cleanup"
     IN  \/ refused /\ Finish("phy") /\ UNCHANGED <<fabChip, phyJ>>
         \/ ~refused /\ p.op = "start" /\ ~fabChip.fwd["p"] /\ Withdraw("phy") /\ UNCHANGED <<Locks, phyJ>>
         \/ ~refused /\ p.op = "start" /\ fabChip.fwd["p"] /\ PhyIntent("start") /\ FabGoto("phy", "fwd") /\ UNCHANGED <<fabChip, Locks>>
         \/ ~refused /\ p.op = "stop" /\ FabGoto("phy", "down") /\ PhyIntent("stop") /\ UNCHANGED <<fabChip, Locks>>
  /\ UNCHANGED <<fabJ, wanJ, wanTimer, aggJ, fabFaults>>

\* The queue preparation is fenced again, then the intent is written.
PhyStart ==
  \/ /\ AtPc("phy", "intent")
     /\ IF Fenced("phy") THEN PhyIntent("start") /\ FabGoto("phy", "fwd") /\ UNCHANGED Locks
        ELSE Finish("phy") /\ UNCHANGED phyJ
     /\ UNCHANGED <<fabChip, fabJ, wanJ, wanTimer, aggJ, fabFaults>>
  \/ /\ AtPc("phy", "fwd")
     /\ IF Provisioned("p") THEN Redirect("p", TRUE) /\ FabGoto("phy", "up") /\ UNCHANGED Locks
        ELSE Finish("phy") /\ UNCHANGED fabChip
     /\ UNCHANGED <<FabJournals, fabFaults>>
  \/ /\ AtPc("phy", "up") /\ FabGoto("phy", "commit")
     /\ SetAdmin("p", fabProc["phy"].before \/ fabChip.up["p"])
     /\ UNCHANGED <<FabJournals, Locks, fabFaults>>
PhyStop ==
  \/ /\ AtPc("phy", "down") /\ SetAdmin("p", FALSE) /\ FabGoto("phy", "unfwd")
     /\ UNCHANGED <<FabJournals, Locks, fabFaults>>
  \/ /\ AtPc("phy", "unfwd") /\ Redirect("p", FALSE) /\ FabGoto("phy", "commit")
     /\ UNCHANGED <<FabJournals, Locks, fabFaults>>
PhyCommit ==
  /\ AtPc("phy", "commit") /\ Finish("phy")
  /\ phyJ' = IF Fenced("phy") THEN [phyJ EXCEPT !.on = fabProc["phy"].op = "start", !.pending = None] ELSE phyJ
  /\ UNCHANGED <<fabChip, fabJ, wanJ, wanTimer, aggJ, fabFaults>>

\* ---- the WAN owner ---------------------------------------------------------------

WanWrite(on, pending, boot, token) ==
  wanJ' = [life |-> fabProc["wan"].life, boot |-> boot, on |-> on, pending |-> pending, token |-> token]
\* Any operation takes the owner's lock and reads the lifetime.  expire and
\* abort find out at once whether their probe is still the pending one.
WanBegin(op, boot) ==
  /\ AtPc("wan", "idle")
  /\ op \in {"expire", "abort"} => wanJ.token /\ wanJ.pending # None /\ wanJ.life = fabChip.life
  /\ op = "expire" => wanTimer
  /\ fabProc' = [fabProc EXCEPT !["wan"] = [FabIdle EXCEPT !.pc = "look", !.op = op, !.life = FabEpoch, !.boot = boot]]
  /\ UNCHANGED <<fabChip, FabJournals, Locks, fabFaults>>
\* The watchdog finds nothing to clean up.
WanTimerEnds ==
  /\ wanTimer /\ AtPc("wan", "idle") /\ ~(wanJ.token /\ wanJ.pending # None /\ wanJ.life = fabChip.life)
  /\ wanTimer' = FALSE
  /\ UNCHANGED <<fabChip, fabJ, phyJ, wanJ, aggJ, Locks, fabProc, fabFaults>>

WanCleanup == {"stop", "finish", "expire", "abort", "recover"}
\* What the operation requires of the state and of the first observation.
WanAllows(op) ==
  LET w == fabProc["wan"]
  IN  CASE op = "start" -> /\ wanJ.pending = None
                           /\ fabChip.fwd["w"] => wanJ.on /\ wanJ.life = w.life /\ wanJ.boot = w.boot
        [] op = "prepare" -> wanJ.pending = None /\ ~wanJ.on /\ ~fabChip.fwd["w"]
        [] op = "recover" /\ wanJ.life # w.life -> ~fabChip.fwd["w"] /\ Fenced("wan")
        [] op = "finish" -> wanJ.life = w.life /\ wanJ.token /\ wanJ.pending = "probe"
        [] OTHER -> wanJ.life = w.life
WanLook ==
  /\ AtPc("wan", "look")
  /\ LET w == fabProc["wan"]
     IN  \/ ~WanAllows(w.op) /\ Finish("wan") /\ UNCHANGED <<wanJ, wanTimer>>
         \/ /\ WanAllows(w.op) /\ w.op = "recover" /\ wanJ.life # w.life
            /\ WanWrite(FALSE, None, None, FALSE) /\ Finish("wan") /\ UNCHANGED wanTimer
         \/ /\ WanAllows(w.op) /\ w.op \in WanCleanup /\ wanJ.life = w.life
            /\ wanJ' = [wanJ EXCEPT !.pending = w.op] /\ FabGoto("wan", "unfwd") /\ UNCHANGED <<Locks, wanTimer>>
         \/ /\ WanAllows(w.op) /\ w.op \in {"start", "prepare"}
            /\ FabGoto("wan", IF fabChip.fwd["w"] THEN "intent" ELSE "face") /\ UNCHANGED <<Locks, wanJ, wanTimer>>
  /\ UNCHANGED <<fabChip, fabJ, phyJ, aggJ, fabFaults>>
\* prepare_fabric: the faceplate lock is held for it alone.
WanPrepareFabric ==
  \/ /\ AtPc("wan", "face") /\ fabFace = None /\ fabFace' = "wan" /\ Withdraw("wan")
     /\ UNCHANGED <<FabJournals, fabLock, fabFaults>>
  \/ /\ AtPc("wan", "restore")
     /\ IF Fenced("wan")
        THEN /\ SetAdmin("w", fabProc["wan"].before) /\ FabGoto("wan", "intent")
             /\ fabFace' = None /\ UNCHANGED fabLock
        ELSE Finish("wan") /\ UNCHANGED fabChip
     /\ UNCHANGED <<FabJournals, fabFaults>>
\* The watchdog is armed before the intent is written.
WanStart ==
  \/ /\ AtPc("wan", "intent") /\ FabGoto("wan", "fwd")
     /\ WanWrite(FALSE, fabProc["wan"].op, fabProc["wan"].boot, fabProc["wan"].op = "prepare")
     /\ wanTimer' = (wanTimer \/ fabProc["wan"].op = "prepare")
     /\ UNCHANGED <<fabChip, fabJ, phyJ, aggJ, Locks, fabFaults>>
  \/ /\ AtPc("wan", "fwd")
     /\ IF Provisioned("w") THEN Redirect("w", TRUE) /\ FabGoto("wan", "commit") /\ UNCHANGED Locks
        ELSE Finish("wan") /\ UNCHANGED fabChip
     /\ UNCHANGED <<FabJournals, fabFaults>>
WanStop ==
  /\ AtPc("wan", "unfwd") /\ Redirect("w", FALSE) /\ FabGoto("wan", "commit")
  /\ UNCHANGED <<FabJournals, Locks, fabFaults>>
WanCommit ==
  /\ AtPc("wan", "commit") /\ Finish("wan")
  /\ LET op == fabProc["wan"].op
     IN  wanJ' = IF ~Fenced("wan") THEN wanJ
                 ELSE [wanJ EXCEPT !.on = op \in {"start", "prepare"}, !.pending = IF op = "prepare" THEN "probe" ELSE None]
  /\ UNCHANGED <<fabChip, fabJ, phyJ, wanTimer, aggJ, fabFaults>>

\* ---- the aggregate owner ---------------------------------------------------------

AggGo(pc, op) == fabProc' = [fabProc EXCEPT !["agg"] = [FabIdle EXCEPT !.pc = pc, !.op = op, !.life = FabEpoch]]
\* fabric: for members that nobody owns and that are withdrawn.
AggFabric ==
  /\ AtPc("agg", "idle") /\ ~AggOwns /\ fabFace = None /\ ~fabChip.up["p"] /\ ~fabChip.fwd["p"]
  /\ fabFace' = "agg" /\ AggGo("fabric", "fabric")
  /\ UNCHANGED <<fabChip, FabJournals, fabLock, fabFaults>>
AggClaim ==
  /\ AtPc("agg", "idle") /\ ~AggOwns
  /\ ~fabChip.up["p"] /\ ~fabChip.fwd["p"] /\ Provisioned("p") /\ fabChip.lag = "none"
  /\ aggJ' = [phase |-> "preparing", life |-> fabChip.life, fresh |-> TRUE, created |-> FALSE, egress |-> FALSE]
  /\ AggGo("create", "prepare")
  /\ UNCHANGED <<fabChip, fabJ, phyJ, wanJ, wanTimer, fabLock, fabFaults>>
\* The members are checked and the ownership journaled under the faceplate lock.
AggPrepare == fabFace = None /\ fabFace' = "agg" /\ AggClaim

\* The trunk exists before the journal says so.
AggStart ==
  \/ /\ AtPc("agg", "create")
     /\ IF fabChip.lag = "none" THEN SetTrunk("empty") /\ FabGoto("agg", "created")
        ELSE FabGoto("agg", "close") /\ UNCHANGED fabChip
     /\ UNCHANGED <<FabJournals, Locks, fabFaults>>
  \/ /\ AtPc("agg", "created") /\ aggJ' = [aggJ EXCEPT !.created = TRUE] /\ FabGoto("agg", "fwd")
     /\ UNCHANGED <<fabChip, fabJ, phyJ, wanJ, wanTimer, Locks, fabFaults>>
  \/ /\ AtPc("agg", "fwd")
     /\ IF Provisioned("p") THEN Redirect("p", TRUE) /\ FabGoto("agg", "up")
        ELSE FabGoto("agg", "close") /\ UNCHANGED fabChip
     /\ UNCHANGED <<FabJournals, Locks, fabFaults>>
  \/ /\ AtPc("agg", "up") /\ SetAdmin("p", TRUE) /\ FabGoto("agg", "commit")
     /\ UNCHANGED <<FabJournals, Locks, fabFaults>>
  \/ /\ AtPc("agg", "commit")
     /\ IF Fenced("agg") THEN aggJ' = [aggJ EXCEPT !.phase = "active", !.fresh = TRUE] /\ Finish("agg")
        ELSE FabGoto("agg", "close") /\ UNCHANGED <<aggJ, Locks>>
     /\ UNCHANGED <<fabChip, fabJ, phyJ, wanJ, wanTimer, fabFaults>>

\* heartbeat: ownership is read back before the lease is renewed; egress is
\* all members or none, as the DP reports and the links allow.
AggHeartbeat(all) ==
  /\ AtPc("agg", "idle") /\ aggJ.phase = "active" /\ aggJ.life = fabChip.life /\ aggJ.fresh /\ fabChip.fwd["p"]
  /\ fabChip.lag # "none" /\ aggJ.created /\ (fabChip.lag = "full") = aggJ.egress
  /\ aggJ' = [aggJ EXCEPT !.egress = all /\ fabChip.up["p"]]
  /\ SetTrunk(IF all /\ fabChip.up["p"] THEN "full" ELSE "empty")
  /\ UNCHANGED <<fabJ, phyJ, wanJ, wanTimer, Locks, fabProc, fabFaults>>
\* No heartbeat for LEASE seconds.
LeaseLost ==
  /\ AggOwns /\ aggJ.fresh /\ fabFaults < FabMaxFaults /\ fabFaults' = fabFaults + 1
  /\ aggJ' = [aggJ EXCEPT !.fresh = FALSE]
  /\ UNCHANGED <<fabChip, fabJ, phyJ, wanJ, wanTimer, Locks, fabProc>>
\* stop, and the watchdog's sweep.
AggStop(op) ==
  /\ AtPc("agg", "idle") /\ aggJ.life = fabChip.life /\ fabFace = None /\ fabFace' = "agg"
  /\ op = "sweep" => AggOwns /\ ~aggJ.fresh
  /\ AggGo("close", op) /\ UNCHANGED <<fabChip, FabJournals, fabLock, fabFaults>>

\* Mutant: ordinary switching is restored while the links are up.
AggCloseEarly ==
  /\ AtPc("agg", "close") /\ aggJ.life = fabChip.life
  /\ aggJ' = [aggJ EXCEPT !.phase = "stopped", !.fresh = FALSE] /\ fabChip' = [fabChip EXCEPT !.fwd["p"] = FALSE]
  /\ Finish("agg") /\ UNCHANGED <<fabJ, phyJ, wanJ, wanTimer, fabFaults>>
\* close(): the links, the trunk if it is known to be ours, the redirects.
AggClose ==
  \/ /\ AtPc("agg", "close")
     /\ IF aggJ.life = fabChip.life THEN aggJ' = [aggJ EXCEPT !.phase = "stopping"] /\ FabGoto("agg", "cdown") /\ UNCHANGED Locks
        ELSE Finish("agg") /\ UNCHANGED aggJ
     /\ UNCHANGED <<fabChip, fabJ, phyJ, wanJ, wanTimer, fabFaults>>
  \/ /\ AtPc("agg", "cdown") /\ SetAdmin("p", FALSE) /\ FabGoto("agg", "clag")
     /\ UNCHANGED <<FabJournals, Locks, fabFaults>>
  \/ /\ AtPc("agg", "clag")
     /\ IF fabChip.lag # "none" /\ ~aggJ.created THEN Finish("agg") /\ UNCHANGED <<fabChip, aggJ>>   \* "ownership uncertain"
        ELSE /\ SetTrunk("none") /\ aggJ' = [aggJ EXCEPT !.created = FALSE, !.egress = FALSE]
             /\ FabGoto("agg", "cunfwd") /\ UNCHANGED Locks
     /\ UNCHANGED <<fabJ, phyJ, wanJ, wanTimer, fabFaults>>
  \/ /\ AtPc("agg", "cunfwd") /\ Redirect("p", FALSE) /\ FabGoto("agg", "cdone")
     /\ UNCHANGED <<FabJournals, Locks, fabFaults>>
  \/ /\ AtPc("agg", "cdone") /\ Finish("agg") /\ aggJ' = [aggJ EXCEPT !.phase = "stopped", !.fresh = FALSE]
     /\ UNCHANGED <<fabChip, fabJ, phyJ, wanJ, wanTimer, fabFaults>>
\* recover: another lifetime, and an empty baseline.
AggRecover ==
  /\ AtPc("agg", "idle") /\ aggJ.life \notin {0, fabChip.life} /\ fabFace = None
  /\ ~fabChip.fwd["p"] /\ fabChip.lag = "none"
  /\ fabChip' = [fabChip EXCEPT !.up["p"] = FALSE]
  /\ aggJ' = [phase |-> "stopped", life |-> aggJ.life, fresh |-> FALSE, created |-> FALSE, egress |-> FALSE]
  /\ UNCHANGED <<fabJ, phyJ, wanJ, wanTimer, Locks, fabProc, fabFaults>>

\* ---- faults ------------------------------------------------------------------------

\* A process is killed, or a call's answer is lost: an aggregate's prepare then
\* closes what it began, unless it was killed.
FabDies(o) ==
  /\ fabProc[o].pc # "idle" /\ fabFaults < FabMaxFaults /\ fabFaults' = fabFaults + 1
  /\ \/ Finish(o)
     \/ /\ o = "agg" /\ fabProc[o].pc \in {"create", "created", "fwd", "up", "commit"}
        /\ FabGoto(o, "close") /\ UNCHANGED Locks
  /\ UNCHANGED <<fabChip, FabJournals>>

NewChip == [header |-> "eth", q |-> [x \in FabPort \cup {"t"} |-> "none"], fwd |-> [x \in FabPort |-> FALSE],
            up |-> [x \in FabPort |-> TRUE], lag |-> "none", life |-> 1]
\* What was half built for the lifetime that ends.
Aged(q) == [x \in DOMAIN q |-> IF q[x] = "part" THEN "old" ELSE q[x]]
\* ffn_bcmd starts anew; whether that resets the switch is not for a client to know.
BcmRestart ==
  /\ fabFaults < FabMaxFaults /\ fabFaults' = fabFaults + 1
  /\ fabChip' \in {[NewChip EXCEPT !.life = fabChip.life + 1], [fabChip EXCEPT !.life = @ + 1, !.q = Aged(@)]}
  /\ UNCHANGED <<FabJournals, Locks, fabProc>>
\* The administrator's own port commands, under the faceplate lock: refused for
\* the members of an aggregate that is not stopped, and for no other port.
AdminSet(x) ==
  /\ fabFace = None /\ ~(x = "p" /\ AggOwns)
  /\ fabChip' = [fabChip EXCEPT !.up[x] = ~@]
  /\ UNCHANGED <<FabJournals, Locks, fabProc, fabFaults>>

FabInit ==
  /\ fabWho \in FabDeployments
  /\ fabChip = NewChip /\ fabJ = [life |-> 0, pending |-> None]
  /\ phyJ = [life |-> 0, boot |-> None, on |-> FALSE, pending |-> None]
  /\ wanJ = [life |-> 0, boot |-> None, on |-> FALSE, pending |-> None, token |-> FALSE] /\ wanTimer = FALSE
  /\ aggJ = [phase |-> "stopped", life |-> 0, fresh |-> FALSE, created |-> FALSE, egress |-> FALSE]
  /\ fabFace = None /\ fabLock = None /\ fabProc = [o \in FabOwner |-> FabIdle]
  /\ fabFaults = FabMaxFaults - fabWho.faults

FabAllocate(o) == FabBegin(o) \/ FabHeader(o) \/ FabQueues(o) \/ FabVerify(o)
PhyStep == UNCHANGED fabWho /\ (PhyLook \/ PhyStart \/ PhyStop \/ PhyCommit \/ FabAllocate("phy"))
WanStep == UNCHANGED fabWho /\ (WanLook \/ WanPrepareFabric \/ WanStart \/ WanStop \/ WanCommit \/ FabAllocate("wan"))
AggStep == UNCHANGED fabWho /\ (AggStart \/ AggClose \/ FabAllocate("agg"))
Watchdog == UNCHANGED fabWho /\ (WanBegin("expire", None) \/ WanTimerEnds)
Sweep == UNCHANGED fabWho /\ (AggStop("sweep"))
\* A request, an administrator's command included, is one of the bounded number.
FabAsked ==
  \/ fabWho.asks = None /\ UNCHANGED fabWho
  \/ fabWho.asks # None /\ fabWho.asks > 0 /\ fabWho' = [fabWho EXCEPT !.asks = @ - 1]
FabRequest ==
  \/ "phy" \in fabWho.who /\ \E op \in {"start", "stop"}, b \in FabBoots \cap fabWho.boots : PhyBegin(op, b)
  \/ "wan" \in fabWho.who /\ \E op \in {"start", "prepare", "stop", "finish", "abort", "recover"}, b \in FabBoots \cap fabWho.boots : WanBegin(op, b)
  \/ "agg" \in fabWho.who /\ (AggFabric \/ AggPrepare \/ (\E all \in BOOLEAN : AggHeartbeat(all)) \/ AggStop("stop") \/ AggRecover)
FabFault == LeaseLost \/ (\E o \in FabOwner : FabDies(o)) \/ BcmRestart
FabNext ==
  \/ PhyStep \/ WanStep \/ AggStep \/ Watchdog \/ Sweep
  \/ FabAsked /\ (FabRequest \/ \E x \in FabPort : AdminSet(x))
  \/ FabFault /\ UNCHANGED fabWho
FabSpec == /\ FabInit /\ [][FabNext]_fabVars
           /\ WF_fabVars(PhyStep) /\ WF_fabVars(WanStep) /\ WF_fabVars(AggStep)
           /\ SF_fabVars(Watchdog) /\ SF_fabVars(Sweep)

-----------------------------------------------------------------------------
FabTypeOK ==
  /\ fabChip.life \in 1 .. FabMaxFaults + 1 /\ fabChip.lag \in {"none", "empty", "full"}
  /\ \A x \in DOMAIN fabChip.q : fabChip.q[x] \in {"none", "ok"} \cup HalfBuilt
  /\ fabFace \in FabOwner \cup {None} /\ fabLock \in FabOwner \cup {None}
  /\ \A o \in FabOwner : fabFace = o \/ fabLock = o => fabProc[o].pc # "idle"
  /\ aggJ.phase \in {"stopped", "preparing", "active", "stopping"}

\* "A partial/uncertain operation blocks automatic allocation": the journal
\* names what is half built in this lifetime, wherever the process died and
\* whatever the owner of another port began since.
AmbiguousJournaled ==
  \A x \in DOMAIN fabChip.q : fabChip.q[x] = "part" => fabJ = [life |-> fabChip.life, pending |-> x]

\* "An ambiguous allocation stays down": within a lifetime of the switch's owner
\* no port is left half built under a link that is up; and a link whose queues,
\* or the trunk's, are half built is raised by an administrator, who is asked
\* about neither journal nor queues, or by a reset of the switch, never by an owner.
AmbiguousKeptDown ==
  [][\A x \in FabPort :
       /\ fabChip'.q[x] = "part" /\ fabChip.q[x] # "part" => ~fabChip'.up[x]
       /\ {fabChip'.q[x], fabChip'.q["t"]} \cap HalfBuilt # {} /\ fabChip'.up[x] /\ ~fabChip.up[x] => AdminSet(x)]_fabVars

\* A redirect in the switch has an owner on record, of whatever lifetime.
RedirectJournaled ==
  /\ fabChip.fwd["p"] => phyJ.on \/ phyJ.pending # None \/ AggOwns
  /\ fabChip.fwd["w"] => wanJ.on \/ wanJ.pending # None

\* A record without a pending operation is what the switch does.  (A port that
\* an aggregate of this lifetime gave up is exempt: its stop, repeated, closes
\* the port again, whoever has it by then.)
RecordTrue ==
  /\ phyJ.on /\ phyJ.pending = None /\ phyJ.life = fabChip.life => fabChip.fwd["p"] \/ aggJ.life = fabChip.life
  /\ wanJ.on /\ wanJ.pending = None /\ wanJ.life = fabChip.life => fabChip.fwd["w"]

\* One port, one owner: while an aggregate has the port, the physical owner is
\* not at work on it.
OneFabricOwner ==
  aggJ.phase \in {"preparing", "active"} =>
    fabProc["phy"].pc \in {"idle", "look", "commit"}

\* "A missing DP owner drops packets instead of falling back to bridging": an
\* aggregate's links are down before ordinary switching is restored.
NeverBridged ==
  [][fabChip.fwd["p"] /\ ~fabChip'.fwd["p"] /\ fabChip'.life = fabChip.life /\ AggOwns => ~fabChip.up["p"]]_fabVars

\* An aggregate whose lease has run out has its links closed.
LeaseEnforced == AggOwns /\ ~aggJ.fresh /\ aggJ.life = fabChip.life
                 ~> aggJ.fresh \/ ~(AggOwns /\ aggJ.life = fabChip.life) \/ (aggJ.phase = "stopping" /\ ~fabChip.up["p"])

\* What an owner may have changed is journaled before it is changed, and has one
\* owner.
FabSafe ==
  /\ FabTypeOK
  /\ AmbiguousJournaled
  /\ RedirectJournaled
  /\ RecordTrue
  /\ OneFabricOwner
=============================================================================
