----------------------------- MODULE DpnetRing -----------------------------
(***************************************************************************)
(* One ring of the CP <-> DP virtual Ethernet (ffn_dpnetd): a producer and *)
(* a consumer that share head, tail and N slots in DP memory, each access  *)
(* a separate 64-bit transfer.  Nothing is cached between operations, and  *)
(* the counters are monotonic modulo W.                                    *)
(*                                                                         *)
(* The CP end, producer of the C2D ring and consumer of the D2C ring, also *)
(* initialises the region: on every start it zeroes head and tail while    *)
(* the DP end may be in the middle of an operation.                        *)
(*                                                                         *)
(* A frame is its serial number.  A slot holds the payload and the         *)
(* {len,crc} group; a frame passes the CRC when both are of one frame.     *)
(***************************************************************************)
EXTENDS Integers, Sequences, FiniteSets

CONSTANTS
  NetN,            \* FFN_DPNET_NSLOTS
  NetW,            \* counter modulus, 2^32 in the code
  MaxFrames,    \* frames the producer's TAP delivers (bound)
  NetMaxFaults     \* restarts of either end and garbled slots (bound)

ASSUME NetGeometryAssumption ==
  NetN \in Nat \ {0} /\ NetW \in Nat /\ NetW % NetN = 0 /\ NetW >= 2 * NetN
ASSUME NetBoundAssumption == MaxFrames \in Nat /\ NetMaxFaults \in Nat

NetSlots == 0 .. NetN - 1
NetCounter == 0 .. NetW - 1
Frame == 0 .. MaxFrames  \* 0: never written or garbled; such a length is refused

ProducerPc == {"zeroHead", "zeroTail", "raise", "attach",
               "spaceHead", "spaceTail", "tap", "pushHead", "pushTail",
               "drop", "payload", "lencrc", "advance"}
ConsumerPc == {"zeroHead", "zeroTail", "raise", "attach",
               "popHead", "popTail", "adopt", "lencrc", "skip", "payload", "advance"}

VARIABLES
  ring,          \* "c2d": the CP produces; "d2c": the DP does.  Never changes.
  head, tail,    \* the ring header in shared memory
  slot,          \* slot[i].data and slot[i].crc
  netUp,            \* H_MAGIC valid and H_CP_UP set
  ppc, ph,       \* producer: where it is, the head it read
  sent,          \* frames read from the TAP so far
  drops,         \* R_DROPS
  cpc, ch, ct,   \* consumer: where it is, the head and tail it read
  ccrc, cdata,   \* its private copy of the slot
  delivered,     \* frames ring_pop returned, oldest first
  netFaults

shared == <<head, tail, slot, netUp>>
producer == <<ppc, ph, sent, drops>>
consumer == <<cpc, ch, ct, ccrc, cdata, delivered>>
netVars == <<ring, head, tail, slot, netUp, ppc, ph, sent, drops, cpc, ch, ct, ccrc, cdata,
             delivered, netFaults>>

\* (uint32_t)(head - tail)
NetUsed(h, t) == (h - t) % NetW
NetSucc(c) == (c + 1) % NetW
NetSlotOf(c) == c % NetN

----------------------------------------------------------------------------
(* Producer: run()'s tap -> region loop, ring_space and ring_push.         *)

SpaceHead ==
  /\ ppc = "spaceHead"
  /\ ph' = head /\ ppc' = "spaceTail"
  /\ UNCHANGED <<ring, shared, sent, drops, consumer, netFaults>>

\* Mutant: a full ring still counts as having space.
SpaceTailOffByOne ==
  /\ ppc = "spaceTail"
  /\ ppc' = IF NetUsed(ph, tail) > NetN THEN "spaceHead" ELSE "tap"
  /\ UNCHANGED <<ring, shared, ph, sent, drops, consumer, netFaults>>

\* No space, or a difference beyond the ring: leave the frame in the TAP.
SpaceTail ==
  /\ ppc = "spaceTail"
  /\ ppc' = IF NetUsed(ph, tail) >= NetN THEN "spaceHead" ELSE "tap"
  /\ UNCHANGED <<ring, shared, ph, sent, drops, consumer, netFaults>>

TapRead ==
  /\ ppc = "tap"
  /\ IF sent < MaxFrames THEN sent' = sent + 1 /\ ppc' = "pushHead"
                         ELSE sent' = sent /\ ppc' = "spaceHead"
  /\ UNCHANGED <<ring, shared, ph, drops, consumer, netFaults>>

PushHead ==
  /\ ppc = "pushHead"
  /\ ph' = head /\ ppc' = "pushTail"
  /\ UNCHANGED <<ring, shared, sent, drops, consumer, netFaults>>

\* ring_push's own check, on a head and a tail read anew.
PushTail ==
  /\ ppc = "pushTail"
  /\ ppc' = IF NetUsed(ph, tail) >= NetN THEN "drop" ELSE "payload"
  /\ UNCHANGED <<ring, shared, ph, sent, drops, consumer, netFaults>>

\* run() has already taken the frame from the TAP: it is lost and counted.
BumpDrops ==
  /\ ppc = "drop"
  /\ drops' = drops + 1 /\ ppc' = "spaceHead"
  /\ UNCHANGED <<ring, shared, ph, sent, consumer, netFaults>>

\* Mutant: head is published before the slot is complete.
PushPayloadPublished ==
  /\ ppc = "payload"
  /\ slot' = [slot EXCEPT ![NetSlotOf(ph)].data = sent]
  /\ head' = NetSucc(ph)
  /\ ppc' = "lencrc"
  /\ UNCHANGED <<ring, tail, netUp, ph, sent, drops, consumer, netFaults>>

PushPayload ==
  /\ ppc = "payload"
  /\ slot' = [slot EXCEPT ![NetSlotOf(ph)].data = sent]
  /\ ppc' = "lencrc"
  /\ UNCHANGED <<ring, head, tail, netUp, ph, sent, drops, consumer, netFaults>>

PushLenCrc ==
  /\ ppc = "lencrc"
  /\ slot' = [slot EXCEPT ![NetSlotOf(ph)].crc = sent]
  /\ ppc' = "advance"
  /\ UNCHANGED <<ring, head, tail, netUp, ph, sent, drops, consumer, netFaults>>

PushAdvance ==
  /\ ppc = "advance"
  /\ head' = NetSucc(ph) /\ ppc' = "spaceHead"
  /\ UNCHANGED <<ring, tail, slot, netUp, ph, sent, drops, consumer, netFaults>>

----------------------------------------------------------------------------
(* Consumer: run()'s region -> tap loop and ring_pop.                      *)

PopHead ==
  /\ cpc = "popHead"
  /\ ch' = head /\ cpc' = "popTail"
  /\ UNCHANGED <<ring, shared, producer, ct, ccrc, cdata, delivered, netFaults>>

PopTail ==
  /\ cpc = "popTail"
  /\ ct' = tail
  /\ cpc' = IF ch = tail THEN "popHead"
            ELSE IF NetUsed(ch, tail) > NetN THEN "adopt" ELSE "lencrc"
  /\ UNCHANGED <<ring, shared, producer, ch, ccrc, cdata, delivered, netFaults>>

\* The peer restarted mid-flight: adopt its head.
PopAdopt ==
  /\ cpc = "adopt"
  /\ tail' = ch /\ cpc' = "popHead"
  /\ UNCHANGED <<ring, head, slot, netUp, producer, ch, ct, ccrc, cdata, delivered, netFaults>>

PopLenCrc ==
  /\ cpc = "lencrc"
  /\ ccrc' = slot[NetSlotOf(ct)].crc
  /\ cpc' = IF slot[NetSlotOf(ct)].crc = 0 THEN "skip" ELSE "payload"
  /\ UNCHANGED <<ring, shared, producer, ch, ct, cdata, delivered, netFaults>>

\* A bad length is consumed, so that one corrupt slot cannot wedge the ring.
PopSkip ==
  /\ cpc = "skip"
  /\ tail' = NetSucc(ct) /\ cpc' = "popHead"
  /\ UNCHANGED <<ring, head, slot, netUp, producer, ch, ct, ccrc, cdata, delivered, netFaults>>

PopPayload ==
  /\ cpc = "payload"
  /\ cdata' = slot[NetSlotOf(ct)].data
  /\ cpc' = "advance"
  /\ UNCHANGED <<ring, shared, producer, ch, ct, ccrc, delivered, netFaults>>

\* tail moves on, then the CRC of the private copy decides.
PopAdvance ==
  /\ cpc = "advance"
  /\ tail' = NetSucc(ct) /\ cpc' = "popHead"
  /\ delivered' = IF cdata = ccrc THEN Append(delivered, cdata) ELSE delivered
  /\ UNCHANGED <<ring, head, slot, netUp, producer, ch, ct, ccrc, cdata, netFaults>>

----------------------------------------------------------------------------
(* Process lifetimes.  Only the CP initialises: region_init_cp takes the   *)
(* region down, zeroes the ring header a group at a time (slots are left   *)
(* alone), and raises it again.  The DP waits for it in region_attach_dp   *)
(* and never looks at it afterwards.                                       *)

CpPc == IF ring = "c2d" THEN ppc ELSE cpc
CpGoto(pc) == IF ring = "c2d" THEN ppc' = pc /\ UNCHANGED cpc
                            ELSE cpc' = pc /\ UNCHANGED ppc
DpPc == IF ring = "c2d" THEN cpc ELSE ppc
DpGoto(pc) == IF ring = "c2d" THEN cpc' = pc /\ UNCHANGED ppc
                            ELSE ppc' = pc /\ UNCHANGED cpc
locals == <<ph, sent, drops, ch, ct, ccrc, cdata, delivered>>

CpLoop == IF ring = "c2d" THEN "spaceHead" ELSE "popHead"
DpLoop == IF ring = "c2d" THEN "popHead" ELSE "spaceHead"

CpRestart ==
  /\ netFaults < NetMaxFaults /\ netFaults' = netFaults + 1
  /\ netUp' = FALSE
  /\ CpGoto("zeroHead")
  /\ UNCHANGED <<ring, head, tail, slot, locals>>

CpZeroHead ==
  /\ CpPc = "zeroHead"
  /\ head' = 0
  /\ CpGoto("zeroTail")
  /\ UNCHANGED <<ring, tail, slot, netUp, ph, sent, drops, ch, ct, ccrc, cdata, delivered, netFaults>>

CpZeroTail ==
  /\ CpPc = "zeroTail"
  /\ tail' = 0 /\ drops' = 0
  /\ CpGoto("raise")
  /\ UNCHANGED <<ring, head, slot, netUp, ph, sent, ch, ct, ccrc, cdata, delivered, netFaults>>

CpRaise ==
  /\ CpPc = "raise"
  /\ netUp' = TRUE
  /\ CpGoto(CpLoop)
  /\ UNCHANGED <<ring, head, tail, slot, locals, netFaults>>

DpRestart ==
  /\ netFaults < NetMaxFaults /\ netFaults' = netFaults + 1
  /\ DpGoto("attach")
  /\ UNCHANGED <<ring, shared, locals>>

\* What the CRC is there for: a slot that does not read back as written.
CoherencySlip ==
  /\ netFaults < NetMaxFaults /\ netFaults' = netFaults + 1
  /\ \E i \in NetSlots, part \in {"data", "crc"} : slot' = [slot EXCEPT ![i][part] = 0]
  /\ UNCHANGED <<ring, head, tail, netUp, producer, consumer>>

DpAttach ==
  /\ DpPc = "attach" /\ netUp
  /\ DpGoto(DpLoop)
  /\ UNCHANGED <<ring, shared, locals, netFaults>>

----------------------------------------------------------------------------
NetInit ==
  /\ ring \in {"c2d", "d2c"}
  /\ head = 0 /\ tail = 0 /\ netUp = FALSE
  /\ slot = [i \in NetSlots |-> [data |-> 0, crc |-> 0]]
  /\ ppc = IF ring = "c2d" THEN "zeroHead" ELSE "attach"
  /\ cpc = IF ring = "c2d" THEN "attach" ELSE "zeroHead"
  /\ ph = 0 /\ sent = 0 /\ drops = 0
  /\ ch = 0 /\ ct = 0 /\ ccrc = 0 /\ cdata = 0
  /\ delivered = << >> /\ netFaults = 0

Produce == SpaceHead \/ SpaceTail \/ TapRead \/ PushHead \/ PushTail \/ BumpDrops
           \/ PushPayload \/ PushLenCrc \/ PushAdvance
Consume == PopHead \/ PopTail \/ PopAdopt \/ PopLenCrc \/ PopSkip
           \/ PopPayload \/ PopAdvance
Lifetime == CpZeroHead \/ CpZeroTail \/ CpRaise \/ DpAttach

NetNext == Produce \/ Consume \/ Lifetime \/ CpRestart \/ DpRestart \/ CoherencySlip

NetSpec == NetInit /\ [][NetNext]_netVars

\* Both daemons run their loops and, started, reach them.
NetFairSpec == NetSpec /\ WF_netVars(Produce) /\ WF_netVars(Consume) /\ WF_netVars(Lifetime)

----------------------------------------------------------------------------
\* Counters stay in their width, serial numbers within what was sent.
NetTypeOK ==
  /\ ring \in {"c2d", "d2c"}
  /\ head \in NetCounter /\ tail \in NetCounter /\ netUp \in BOOLEAN
  /\ slot \in [NetSlots -> [data : 0 .. sent, crc : 0 .. sent]]
  /\ ppc \in ProducerPc /\ ph \in NetCounter /\ sent \in Frame
  /\ drops \in 0 .. MaxFrames
  /\ cpc \in ConsumerPc /\ ch \in NetCounter /\ ct \in NetCounter
  /\ ccrc \in 0 .. sent /\ cdata \in 0 .. sent
  /\ delivered \in Seq(1 .. sent)
  /\ netFaults \in 0 .. NetMaxFaults

\* The frames between tail and head, as the consumer will read them.
Queue == [i \in 1 .. NetUsed(head, tail) |-> slot[NetSlotOf(tail + i - 1)].crc]

\* The number of the next frame the channel will carry.
NextFrame ==
  IF ppc \in {"pushHead", "pushTail", "drop", "payload", "lencrc", "advance"}
    THEN sent ELSE sent + 1
Fifo == INSTANCE FifoChannel WITH N <- NetN, queue <- Queue, out <- delivered, next <- NextFrame
\* While neither end restarts, the ring is a lossless bounded FIFO channel:
\* what ring_push published is what ring_pop hands over, in order and once,
\* although both sides run unsynchronised and the counters wrap.
FifoSpec == Fifo!Init /\ [][netFaults' = 0 => Fifo!Next]_<<Queue, delivered, NextFrame>>

\* "Should be unreachable given the check above; counted rather than trusted":
\* without a restart, space seen before the TAP read is still there at the push.
NeverDropped == netFaults = 0 => drops = 0

\* After the last fault the ring drains: nothing published stays
\* behind, whatever stale counter a restart left in the header.
NetDrains == <>[](head = tail)

\* "Slots are left alone: len/crc are rewritten before each use": no frame is
\* handed to the kernel twice, restarts of the CP included.
NetAtMostOnce ==
  \A i, j \in 1 .. Len(delivered) : delivered[i] = delivered[j] => i = j

\* Indices stay in the ring and no admitted frame is dropped.
NetSafe ==
  /\ NetTypeOK
  /\ NeverDropped
============================================================================
