-------------------------------- MODULE DpTrunk --------------------------------
(* The data plane's trunk driver (octeon/kctl/ffn_dp_packet_init.c,
   ffn_dp_dma.h, ffn_dp_trunk.h): the staged preparation of the packet
   hardware, the network device over it, one receive thread per SSO group, and
   the 4 KiB blocks that pass between the hardware pool, the receive chains and
   the transmit commands.  Sections under trunk_tx_lock are one step; device
   open and stop are cut where the threads run in between. *)
EXTENDS Naturals, FiniteSets

CONSTANTS
    TrunkBlock,        \* the blocks of pool 61
    TrunkGroup,        \* receive groups; 0 also completes transmits
    TrunkSlots,        \* transmit commands outstanding at most (FFN_TX_SLOTS)
    TrunkBudget        \* packets one pass of a thread receives at most (64)

ASSUME TrunkAssumption == IsFiniteSet(TrunkBlock)

VARIABLES
    prep,         \* preparation steps done
    mem,          \* "none" | "held" | "publishing" | "published": the DMA memory
    dmaError,     \* dma_error
    where,        \* block -> "pool" | "sso" | "rx" | "tx" | "lost"
    done,         \* blocks whose completion word the hardware has cleared
    old,          \* transmit commands older than five seconds
    work,         \* receive descriptors queued
    thread,       \* group -> [pc, item, n]: where, holding what, packets this pass
    dev,          \* where the network device is
    running, accepting, dqOpen, error, pki, queue,
    freedTwice    \* history: a block went back to the pool a second time

trunkVars == <<prep, mem, dmaError, where, done, old, work, thread, dev, running, accepting,
               dqOpen, error, pki, queue, freedTwice>>
stages == <<prep, mem, dmaError>>
flags == <<running, accepting, dqOpen>>

TrunkSteps == {"pki", "dma", "sso", "pkomem", "pkoq", "trunk"}
NoItem == [wqe |-> 0, chain |-> {}]

TrunkTypeOK ==
    /\ prep \subseteq TrunkSteps /\ mem \in {"none", "held", "publishing", "published"} /\ dmaError \in BOOLEAN
    /\ where \in [TrunkBlock -> {"pool", "sso", "rx", "tx", "lost"}]
    /\ done \subseteq TrunkBlock /\ old \subseteq TrunkBlock
    \* a completion or an age belongs to an outstanding command
    /\ \A b \in done \cup old : where[b] = "tx"
    /\ \A w \in work : \A b \in w.item.chain \cup {w.item.wqe} : where[b] = "sso"
    /\ dev \in {"down", "opening", "up", "fenced", "draining", "closing"}
    /\ queue \in BOOLEAN /\ pki \in BOOLEAN /\ error \in BOOLEAN

\* ---- preparation: one debugfs command each, under init_lock --------------

Quiescent == ~pki /\ ~dqOpen

\* Mutant: the failed preparation gives back what the hardware already knows.
ReleaseAlways == mem' = "none"
ReleaseUnpublished == mem' = IF mem = "held" THEN "none" ELSE "published"

\* prepare-dma allocates, publishes and tests the pools.  An allocation that
\* failed gives its memory back; what was published stays.
PrepareDma ==
    /\ "dma" \notin prep /\ mem = "none" /\ Quiescent
    /\ mem' = "held"
    /\ UNCHANGED <<prep, dmaError>>
PublishDma ==
    /\ mem = "held" /\ mem' = "publishing"
    /\ UNCHANGED <<prep, dmaError>>
FinishDma(ok) ==
    /\ mem = "publishing" \/ (mem = "held" /\ ~ok)
    /\ prep' = IF ok THEN prep \cup {"dma"} ELSE prep
    /\ dmaError' = (dmaError \/ ~ok)
    /\ ReleaseUnpublished

Needs(step) == CASE step = "sso" -> {"dma"}
                 [] step = "pkomem" -> {"dma"}
                 [] step = "pkoq" -> {"pkomem"}
                 [] step = "trunk" -> {"pki", "dma", "sso", "pkoq"}
                 [] step = "pki" -> {}

\* prepare-sso, -pko-memory, -pko-queues, -pki and -trunk.  A failure after the
\* memory is published is remembered and refuses every later step.
TrunkPrepare(step, ok) ==
    /\ mem \in {"none", "published"}
    /\ (step # "pki" => step \notin prep) /\ Needs(step) \subseteq prep
    /\ step # "pki" => ~dmaError
    /\ step # "trunk" => Quiescent
    /\ prep' = IF ok THEN prep \cup {step} ELSE prep \ {step}
    /\ dmaError' = (dmaError \/ (~ok /\ step \notin {"pki", "trunk"}))
    /\ UNCHANGED mem

Stage ==
    /\ \/ PrepareDma \/ PublishDma \/ \E ok \in BOOLEAN : FinishDma(ok)
       \/ \E step \in TrunkSteps \ {"dma"}, ok \in BOOLEAN : TrunkPrepare(step, ok)
    /\ UNCHANGED <<where, done, old, work, thread, dev, flags, error, pki, queue, freedTwice>>

\* ---- blocks -----------------------------------------------------------

TrunkPending == {b \in TrunkBlock : where[b] = "tx"}
TrunkFree(bs) == [b \in TrunkBlock |-> IF b \in bs THEN "pool" ELSE where[b]]

\* trunk_reap: completed commands give their block back, an overdue one faults.
Reaped == TrunkPending \cap done
\* Mutant: the deadline is looked at only once the command has completed.
OverdueCompleted == TrunkPending \cap old \cap done # {}
Overdue == TrunkPending \cap (old \ done) # {}
Left == Cardinality(TrunkPending \ Reaped)

TrunkReap(bs) ==
    /\ where' = [b \in TrunkBlock |-> IF b \in bs THEN "tx" ELSE TrunkFree(Reaped)[b]]
    /\ done' = done \ Reaped /\ old' = old \ Reaped
    /\ freedTwice' = (freedTwice \/ \E b \in Reaped : where[b] = "pool")

\* trunk_xmit: the stack may call it until ndo_stop returns, the queue awake.
Xmit ==
    /\ dev \in {"up", "fenced", "draining", "closing"} /\ queue
    /\ \/ /\ ~accepting \/ error \/ Overdue                \* dropped
          /\ TrunkReap({}) /\ error' = (error \/ Overdue) /\ UNCHANGED queue
       \/ /\ accepting /\ ~error /\ ~Overdue /\ Left = TrunkSlots  \* busy
          /\ TrunkReap({}) /\ queue' = FALSE /\ UNCHANGED error
       \/ /\ accepting /\ ~error /\ ~Overdue /\ Left < TrunkSlots
          /\ \E b \in {x \in TrunkBlock : where[x] = "pool"}, bad \in BOOLEAN :
                TrunkReap({b}) /\ error' = bad /\ UNCHANGED queue
    /\ UNCHANGED <<stages, work, thread, dev, flags, pki>>

\* ---- hardware ----------------------------------------------------------

Ingress(g) ==
    /\ pki
    /\ \E bs \in SUBSET {b \in TrunkBlock : where[b] = "pool"} : \E w \in bs :
          \E chain \in {bs, bs \ {w}} \ {{}} :
             /\ work' = work \cup {[grp |-> g, item |-> [wqe |-> w, chain |-> chain]]}
             /\ where' = [b \in TrunkBlock |-> IF b \in bs THEN "sso" ELSE where[b]]
    /\ UNCHANGED <<stages, done, old, thread, dev, flags, error, pki, queue, freedTwice>>

Complete(b) ==
    /\ where[b] = "tx" /\ b \notin done /\ dqOpen
    /\ done' = done \cup {b}
    /\ UNCHANGED <<stages, where, old, work, thread, dev, flags, error, pki, queue, freedTwice>>

TrunkAge == /\ old' = TrunkPending /\ old # TrunkPending
            /\ UNCHANGED <<stages, where, done, work, thread, dev, flags, error, pki, queue, freedTwice>>

\* ---- the receive threads (trunk_poll, trunk_receive) ---------------------

TrunkGoto(g, pc, item) == thread' = [thread EXCEPT ![g].pc = pc, ![g].item = item,
                                        ![g].n = CASE pc = "batch" -> @ + 1 [] pc = "hold" -> @ [] OTHER -> 0]
After(g) == IF g = 0 THEN "service" ELSE "idle"

TrunkBegin(g) ==
    /\ "trunk" \in prep /\ thread[g].pc = "idle"
    /\ IF running /\ ~error THEN TrunkGoto(g, "batch", NoItem) ELSE TrunkGoto(g, After(g), NoItem)
    /\ UNCHANGED <<stages, where, done, old, work, dev, flags, error, pki, queue, freedTwice>>

TrunkTake(g) ==
    /\ thread[g].pc = "batch" /\ thread[g].n <= TrunkBudget
    /\ \E w \in {x \in work : x.grp = g} :
          /\ work' = work \ {w}
          /\ where' = [b \in TrunkBlock |-> IF b \in w.item.chain \cup {w.item.wqe} THEN "rx" ELSE where[b]]
          /\ TrunkGoto(g, "hold", w.item)
    /\ UNCHANGED <<stages, done, old, dev, flags, error, pki, queue, freedTwice>>

TrunkEmpty(g) ==
    /\ thread[g].pc = "batch"
    /\ thread[g].n > TrunkBudget \/ ~\E w \in work : w.grp = g
    /\ TrunkGoto(g, After(g), NoItem)
    /\ UNCHANGED <<stages, where, done, old, work, dev, flags, error, pki, queue, freedTwice>>

\* The blocks a valid chain returns, in order: the chain, then the descriptor's
\* own block unless the chain held it.
TrunkSecond(item) == item.wqe \notin item.chain

TrunkRelease(g) ==
    /\ thread[g].pc = "hold"
    /\ LET item == thread[g].item IN
       \/ /\ where' = TrunkFree(item.chain \cup (IF TrunkSecond(item) THEN {item.wqe} ELSE {}))
          /\ freedTwice' = (freedTwice \/ (TrunkSecond(item) /\ item.wqe \in item.chain))
          /\ UNCHANGED error
          /\ TrunkGoto(g, "batch", NoItem)
       \/ \* a descriptor that names no block of ours: nothing is freed
          /\ where' = [b \in TrunkBlock |-> IF b \in item.chain \cup {item.wqe} THEN "lost" ELSE where[b]]
          /\ error' = TRUE
          /\ UNCHANGED freedTwice
          /\ TrunkGoto(g, After(g), NoItem)
    /\ UNCHANGED <<stages, done, old, work, dev, flags, pki, queue>>

\* Group 0 completes transmits, wakes the queue, and shuts a faulted trunk.
MayWake == accepting /\ ~error /\ ~Overdue /\ Left < TrunkSlots

Service ==
    /\ thread[0].pc = "service"
    /\ TrunkReap({}) /\ error' = (error \/ Overdue)
    /\ queue' = (queue \/ MayWake)
    /\ TrunkGoto(0, "fault", NoItem)
    /\ UNCHANGED <<stages, work, dev, flags, pki>>

TrunkFault ==
    /\ thread[0].pc = "fault"
    /\ pki' = (pki /\ ~error) /\ queue' = (queue /\ ~error)
    /\ TrunkGoto(0, "idle", NoItem)
    /\ UNCHANGED <<stages, where, done, old, work, dev, flags, error, freedTwice>>

Thread(g) == TrunkBegin(g) \/ TrunkTake(g) \/ TrunkEmpty(g) \/ TrunkRelease(g) \/ (g = 0 /\ (Service \/ TrunkFault))

\* ---- ndo_open and ndo_stop ----------------------------------------------

Blocks == <<where, done, old, work, thread, freedTwice>>

TrunkOpen ==
    /\ dev = "down" /\ {"trunk", "pki"} \subseteq prep /\ ~error /\ ~dmaError /\ ~pki /\ ~dqOpen
    /\ \/ dqOpen' = TRUE /\ running' = TRUE /\ dev' = "opening" /\ UNCHANGED error
       \/ error' = TRUE /\ UNCHANGED <<dqOpen, running, dev>>
    /\ UNCHANGED <<stages, Blocks, accepting, pki, queue>>

Opened ==
    /\ dev = "opening"
    /\ \/ /\ pki' = TRUE /\ accepting' = TRUE /\ queue' = TRUE /\ dev' = "up"
          /\ UNCHANGED <<running, error>>
       \/ /\ error' = TRUE /\ running' = FALSE /\ accepting' = FALSE /\ dev' = "down"
          /\ UNCHANGED <<pki, queue>>
    /\ UNCHANGED <<stages, Blocks, dqOpen>>

\* Mutant: the descriptor queue is closed without first fencing transmit.
FenceNot == dev = "up" /\ dev' = "fenced"
            /\ UNCHANGED <<stages, Blocks, running, dqOpen, error, pki, queue, accepting>>
TrunkFence == dev = "up" /\ dev' = "fenced" /\ accepting' = FALSE
              /\ UNCHANGED <<stages, Blocks, running, dqOpen, error, pki, queue>>

Quiet ==
    /\ dev = "fenced" /\ dev' = "draining"
    /\ queue' = FALSE /\ pki' = FALSE
    /\ UNCHANGED <<stages, Blocks, flags, error>>

\* One pass of the drain loop found nothing outstanding, or the last one did.
Drained ==
    /\ dev = "draining"
    /\ \/ Left = 0 /\ work = {} /\ error' = (error \/ Overdue)
       \/ error' = TRUE
    /\ TrunkReap({}) /\ running' = FALSE
    /\ dev' = IF Left = 0 /\ work = {} THEN "closing" ELSE "down"
    /\ UNCHANGED <<stages, work, thread, accepting, dqOpen, pki, queue>>

TrunkClosed ==
    /\ dev = "closing" /\ dev' = "down"
    /\ \/ dqOpen' = FALSE /\ UNCHANGED error
       \/ error' = TRUE /\ UNCHANGED dqOpen
    /\ UNCHANGED <<stages, Blocks, running, accepting, pki, queue>>

Device == TrunkOpen \/ Opened \/ TrunkFence \/ Quiet \/ Drained \/ TrunkClosed

TrunkInit ==
    /\ prep = {} /\ mem = "none" /\ dmaError = FALSE
    /\ where = [b \in TrunkBlock |-> "pool"] /\ done = {} /\ old = {} /\ work = {}
    /\ thread = [g \in TrunkGroup |-> [pc |-> "idle", item |-> NoItem, n |-> 0]]
    /\ dev = "down" /\ running = FALSE /\ accepting = FALSE /\ dqOpen = FALSE
    /\ error = FALSE /\ pki = FALSE /\ queue = FALSE /\ freedTwice = FALSE

TrunkNext == \/ Stage \/ Xmit \/ TrunkAge \/ Device
             \/ \E g \in TrunkGroup : Ingress(g) \/ Thread(g)
             \/ \E b \in TrunkBlock : Complete(b)

\* The kernel runs its threads and the clock goes on; the hardware owes nothing.
TrunkFairness == WF_trunkVars(TrunkAge) /\ \A g \in TrunkGroup : WF_trunkVars(Thread(g))
TrunkSpec == TrunkInit /\ [][TrunkNext]_trunkVars /\ TrunkFairness

\* ---- properties --------------------------------------------------------

\* No block is returned to the pool twice, whichever of the threads, the
\* transmit path and the stop loop sees its completion first.
FreedOnce == ~freedTwice

\* A closed descriptor queue has no command outstanding: ndo_stop, the
\* completion thread and a late transmit cannot leave one behind.
ClosedIdle == ~dqOpen => TrunkPending = {}

\* Memory the hardware has been told of stays until the reset.
PublishedKept == [][(mem \in {"publishing", "published"}) => mem' = "published"]_mem

\* A full queue drains or faults, even when the hardware completes nothing.
FullResolves == (dev = "up" /\ ~queue) ~> (queue \/ error \/ dev # "up")

\* A block is freed once, and a closed trunk has nothing under way.
TrunkSafe ==
  /\ TrunkTypeOK
  /\ FreedOnce
  /\ ClosedIdle
================================================================================
