----------------------------- MODULE BdeDriver -----------------------------
(* The switch's kernel driver (kctl/ffn_bde.c): loading (bus mastering, byte
   order and outbound window of the bridge, interrupt, DMA pool), the ioctls of
   the SDK's threads under ffn_bde_lock, the interrupt handler, and unloading.
   Registers and addresses are reduced to what the driver decides by. *)
EXTENDS FfnCommon, Naturals, FiniteSets

CONSTANTS
  BdeMaxIrq,   \* events the chip has for the SDK (bound)
  BdeMaxOff,   \* times the SDK disables interrupts (bound)
  Page,        \* page frames
  PageKind,    \* PageKind[p]: "ram", "reserved" or "hole"
  Pools        \* ranges of pages dma_phys may name; None: not given

VARIABLES
  smp,      \* several cores: tasks run while the handler does; fixed
  loaded,   \* what module init decided: [up, intr, bridge, pool], see Load
  irq,      \* [masked, depth, moved]: irq_masked, the kernel's depth of disables,
            \* and whether irq_seq differs from the value command 9 sampled
  isr,      \* the handler: "idle", or what it does next
  bdeLock,     \* the task in ffn_bde_lock, or None
  task,     \* task[t]: where the SDK's interrupt and its main thread are
  off,      \* command 7 without a command 6 yet
  offs,     \* how often so far
  bdePending, raised   \* the chip has work for the SDK; how often so far

bdeVars == <<smp, loaded, irq, isr, bdeLock, task, off, offs, bdePending, raised>>
BdeTask == {"intr", "main"}
Unloaded == [up |-> FALSE, intr |-> None, bridge |-> None, pool |-> None]

ASSUME BdeNoneAssumption == None \notin {"msi", "intx"} \cup BdeTask

\* ---- module init ---------------------------------------------------------

\* ffn_bde_paxb_init: the write is undone when it does not read back, and then
\* nothing further is programmed.
Bridge(readback, msi) == IF readback THEN [be |-> TRUE, out |-> TRUE, intx |-> ~msi]
                         ELSE [be |-> FALSE, out |-> FALSE, intx |-> FALSE]

\* ffn_bde_paxb_route_intx.
RouteIntx(bridge) == [bridge EXCEPT !.intx = TRUE]

\* ffn_bde_irq_setup: MSI when it is asked for and can be had, then INTx.
IrqSetup(bridge, msi, enabled, requested, legacy) ==
  CASE msi /\ enabled /\ requested -> <<bridge, "msi">>
    [] ~(msi /\ enabled /\ requested) /\ legacy -> <<RouteIntx(bridge), "intx">>
    [] OTHER -> <<RouteIntx(bridge), None>>

\* ffn_bde_dma_setup: a range of which an end is in the memory map must be
\* reserved page by page.
PoolUsable(p) ==
  LET live(q) == PageKind[q] # "hole"
  IN  (live(p.first) \/ live(p.last)) => \A q \in p.first .. p.last : PageKind[q] # "ram"
Coherent == [first |-> None, last |-> None]
DmaSetup(p) == IF p # None /\ PoolUsable(p) THEN p ELSE Coherent

Load ==
  /\ ~loaded.up
  /\ \E readback, msi, enabled, requested, legacy \in BOOLEAN, p \in Pools :
       LET s == IrqSetup(Bridge(readback, msi), msi, enabled, requested, legacy)
       IN  loaded' = [up |-> TRUE, bridge |-> s[1], intr |-> s[2], pool |-> DmaSetup(p)]
  /\ irq' = [masked |-> FALSE, depth |-> 0, moved |-> FALSE]
  /\ task' = [t \in BdeTask |-> "closed"]
  /\ UNCHANGED <<smp, isr, bdeLock, off, offs, bdePending, raised>>

\* ffn_bde_exit; the open files hold the module.
Unload ==
  /\ loaded.up /\ bdeLock = None /\ isr = "idle" /\ \A t \in BdeTask : task[t] \in {"closed", "exited"}
  /\ loaded' = Unloaded /\ irq' = [irq EXCEPT !.masked = FALSE, !.depth = 0]
  /\ UNCHANGED <<smp, isr, bdeLock, task, off, offs, bdePending, raised>>

\* ---- the chip and the handler ---------------------------------------------

Raise ==
  /\ loaded.up /\ ~bdePending /\ raised < BdeMaxIrq
  /\ bdePending' = TRUE /\ raised' = raised + 1
  /\ UNCHANGED <<smp, loaded, irq, isr, bdeLock, task, off, offs>>

\* A level-triggered line, or a message held back while masked.
IsrEnter ==
  /\ loaded.intr # None /\ bdePending /\ irq.depth = 0 /\ isr = "idle"
  /\ isr' = IF irq.masked THEN "inc" ELSE "disable"
  /\ irq' = [irq EXCEPT !.masked = TRUE]
  /\ UNCHANGED <<smp, loaded, bdeLock, task, off, offs, bdePending, raised>>
IsrDisable ==
  /\ isr = "disable" /\ isr' = "inc"
  /\ irq' = [irq EXCEPT !.depth = @ + 1]
  /\ UNCHANGED <<smp, loaded, bdeLock, task, off, offs, bdePending, raised>>
IsrInc ==
  /\ isr = "inc" /\ isr' = "idle"
  /\ irq' = [irq EXCEPT !.moved = TRUE]
  /\ UNCHANGED <<smp, loaded, bdeLock, task, off, offs, bdePending, raised>>
Isr == IsrEnter \/ IsrDisable \/ IsrInc

\* ---- the ioctls ------------------------------------------------------------

\* On one core the handler is not preempted by a task.
Runs == loaded.up /\ (smp \/ isr = "idle")
Goes(t, from, to) == Runs /\ task[t] = from /\ task' = [task EXCEPT ![t] = to]
Kept == UNCHANGED <<smp, loaded, isr, offs, bdePending, raised>>

OpenDev(t) == Goes(t, "closed", "user") /\ Kept /\ UNCHANGED <<irq, bdeLock, off>>
CloseDev(t) == t = "main" /\ ~off /\ Goes(t, "user", "closed") /\ Kept /\ UNCHANGED <<irq, bdeLock, off>>

\* Command 9: the sequence is sampled before re-arming.
Wait9(t) ==
  /\ t = "intr" /\ bdeLock = None /\ bdeLock' = t /\ Goes(t, "user", "xchg0")
  /\ irq' = [irq EXCEPT !.moved = FALSE]
  /\ Kept /\ UNCHANGED off
\* Commands 6 and 7; "other" stands for the ones that only answer.
Enable6(t) ==
  /\ t = "main" /\ off /\ bdeLock = None /\ bdeLock' = t /\ Goes(t, "user", "xchg0") /\ off' = FALSE
  /\ Kept /\ UNCHANGED irq
Disable7(t) ==
  /\ t = "main" /\ ~off /\ offs < BdeMaxOff /\ bdeLock = None /\ bdeLock' = t /\ Goes(t, "user", "xchg1")
  /\ off' = TRUE /\ offs' = offs + 1
  /\ UNCHANGED <<smp, loaded, irq, isr, bdePending, raised>>
OtherCmd(t) ==
  /\ t = "main" /\ bdeLock = None /\ bdeLock' = t /\ Goes(t, "user", "leave") /\ Kept /\ UNCHANGED <<irq, off>>

\* Mutant: the flag is read and not exchanged.
RearmReads(t) ==
  /\ bdeLock = t /\ Goes(t, "xchg0", IF loaded.intr # None /\ irq.masked THEN "enable" ELSE "armed")
  /\ Kept /\ UNCHANGED <<irq, bdeLock, off>>
\* ffn_bde_irq_rearm, ffn_bde_irq_mask: the exchange decides who enables.
Rearm(t) ==
  /\ bdeLock = t /\ Goes(t, "xchg0", IF loaded.intr # None /\ irq.masked THEN "enable" ELSE "armed")
  /\ irq' = IF loaded.intr # None THEN [irq EXCEPT !.masked = FALSE] ELSE irq
  /\ Kept /\ UNCHANGED <<bdeLock, off>>
Mask(t) ==
  /\ bdeLock = t /\ Goes(t, "xchg1", IF loaded.intr # None /\ ~irq.masked THEN "disable" ELSE "leave")
  /\ irq' = IF loaded.intr # None THEN [irq EXCEPT !.masked = TRUE] ELSE irq
  /\ Kept /\ UNCHANGED <<bdeLock, off>>
\* enable_irq of an enabled line warns and changes nothing.
EnableIrq(t) ==
  /\ bdeLock = t /\ Goes(t, "enable", "armed")
  /\ irq' = [irq EXCEPT !.depth = IF @ = 0 THEN 0 ELSE @ - 1]
  /\ Kept /\ UNCHANGED <<bdeLock, off>>
DisableIrq(t) ==
  /\ bdeLock = t /\ Goes(t, "disable", "leave")
  /\ irq' = [irq EXCEPT !.depth = @ + 1]
  /\ Kept /\ UNCHANGED <<bdeLock, off>>
\* The lock is dropped across the wait.
Armed(t) ==
  /\ bdeLock = t /\ Goes(t, "armed", IF t = "intr" THEN "wait" ELSE "leave")
  /\ bdeLock' = IF t = "intr" THEN None ELSE t
  /\ Kept /\ UNCHANGED <<irq, off>>
\* Woken by the handler; a signal returns as well, and then the thread is gone.
Woken(t) == irq.moved /\ Goes(t, "wait", "relock") /\ Kept /\ UNCHANGED <<irq, bdeLock, off>>
Signal(t) == ~irq.moved /\ Goes(t, "wait", "killed") /\ Kept /\ UNCHANGED <<irq, bdeLock, off>>
Relock(t) ==
  /\ bdeLock = None /\ Runs /\ task[t] \in {"relock", "killed"}
  /\ bdeLock' = t /\ task' = [task EXCEPT ![t] = IF @ = "killed" THEN "dead" ELSE "leave"]
  /\ Kept /\ UNCHANGED <<irq, off>>
LeaveIoctl(t) ==
  /\ bdeLock = t /\ Runs /\ task[t] \in {"leave", "dead"} /\ bdeLock' = None
  /\ task' = [task EXCEPT ![t] = IF @ = "dead" THEN "exited" ELSE IF t = "intr" THEN "handle" ELSE "user"]
  /\ Kept /\ UNCHANGED <<irq, off>>
\* The SDK's handlers (external): they serve the chip and wait again.
Handle(t) ==
  /\ t = "intr" /\ Goes(t, "handle", "user") /\ bdePending' = FALSE
  /\ UNCHANGED <<smp, loaded, irq, isr, bdeLock, off, offs, raised>>

Ioctl(t) ==
  \/ Rearm(t) \/ Mask(t) \/ EnableIrq(t) \/ DisableIrq(t) \/ Armed(t) \/ Woken(t) \/ Relock(t) \/ LeaveIoctl(t)
Sdk(t) == Wait9(t) \/ Enable6(t) \/ Handle(t) \/ (t = "intr" /\ OpenDev(t))

BdeInit ==
  /\ smp \in BOOLEAN /\ loaded = Unloaded /\ irq = [masked |-> FALSE, depth |-> 0, moved |-> FALSE] /\ isr = "idle"
  /\ bdeLock = None /\ task = [t \in BdeTask |-> "closed"] /\ off = FALSE /\ offs = 0
  /\ bdePending = FALSE /\ raised = 0
BdeNext ==
  \/ Load \/ Unload \/ Raise \/ Isr
  \/ \E t \in BdeTask : OpenDev(t) \/ CloseDev(t) \/ Disable7(t) \/ OtherCmd(t) \/ Sdk(t) \/ Ioctl(t) \/ Signal(t)

\* Interrupts are delivered, a mutex is handed over in turn, system calls return, the SDK's interrupt thread
\* comes back to command 9 and every command 7 is followed by a 6.
BdeFairness ==
  /\ WF_bdeVars(Isr)
  /\ \A t \in {"intr", "main"} : SF_bdeVars(Ioctl(t)) /\ SF_bdeVars(Sdk(t))
BdeSpec == BdeInit /\ [][BdeNext]_bdeVars /\ BdeFairness

----------------------------------------------------------------------------
BdeTypeOK ==
  /\ smp \in BOOLEAN /\ irq.masked \in BOOLEAN /\ irq.depth \in Nat /\ irq.moved \in BOOLEAN
  /\ isr \in {"idle", "disable", "inc"} /\ bdeLock \in BdeTask \cup {None}
  /\ off \in BOOLEAN /\ bdePending \in BOOLEAN

BdeQuiet == isr = "idle" /\ \A t \in BdeTask : task[t] \notin {"enable", "disable"}
\* "irq_masked tracks whether the ISR has disabled the line, so that
\* disable/enable stay balanced": when nobody is between the two, the flag is
\* what the line is.
MaskBalanced == BdeQuiet /\ loaded.intr # None => irq.depth = (IF irq.masked THEN 1 ELSE 0)

\* Whatever the cores do between the exchange of irq_masked and the line, a flag
\* that is set never stands over a line that is on: the handler would take the
\* next level-triggered interrupt for one it has masked already, and return to
\* it for ever.
MaskHolds == BdeQuiet /\ loaded.intr # None /\ irq.masked => irq.depth > 0

\* The chip raises its interrupt where the handler listens: the message or the
\* legacy line, also when asking for a message only fails after the bridge has
\* been programmed for one.
RouteReachesHandler == loaded.intr = "intx" => loaded.bridge.intx

\* Command 9 keeps nobody out while it waits: the SDK can enable interrupts
\* again.
OthersEnter == (off /\ task["main"] = "user") ~> ~off

\* What the chip raises is served by the SDK, whatever it enabled and disabled
\* meanwhile, as long as a handler is installed and one core runs both.
InterruptServed == (~smp /\ bdePending /\ loaded.intr # None) ~> (~bdePending \/ ~loaded.up \/ task["intr"] = "exited")

\* The line is off whenever the driver believes so, on one core on no other
\* occasion, and the interrupt is raised where its handler listens.
BdeSafe ==
  /\ BdeTypeOK
  /\ ~smp => MaskBalanced
  /\ MaskHolds
  /\ RouteReachesHandler
=============================================================================
