---------------------------- MODULE DataplaneProofs ----------------------------
(***************************************************************************)
(* The data plane.  The shared-memory rings, for every number of slots,    *)
(* every counter width that is a multiple of it, and every number of       *)
(* frames, calls and faults; the blocks of the trunk driver; and inline    *)
(* inspection, for every set of signatures and rules.                      *)
(***************************************************************************)
EXTENDS DpnetRing, CpdpTransport, PcnetRing, DpTrunk, DpScan, FfnLemmas, SequenceTheorems, FiniteSetTheorems,
  TLAPS

-----------------------------------------------------------------------------
(* The CP-DP packet tunnel.                                                *)

NetPushing == {"pushHead", "pushTail", "drop", "payload", "lencrc", "advance"}
NetBooting == {"zeroHead", "zeroTail", "raise", "attach"}

(* The count of drops is bounded by the frames taken, and what a consumer  *)
(* is about to hand over has a serial number.                              *)
NetTyped ==
  /\ NetTypeOK
  /\ drops <= sent
  /\ ppc \in NetPushing => drops < sent
  /\ cpc \in {"payload", "advance"} => ccrc # 0

LEMMA NetConstants ==
  /\ NetN \in Nat \ {0} /\ NetW \in Nat \ {0} /\ NetW % NetN = 0 /\ NetN < NetW
  /\ 0 \in NetCounter /\ 0 \in NetSlots
  /\ \A c \in NetCounter : NetSucc(c) \in NetCounter /\ NetSlotOf(c) \in NetSlots
<1>1. NetN \in Nat \ {0} /\ NetW \in Nat \ {0} /\ NetW % NetN = 0 /\ NetN < NetW
  BY NetGeometryAssumption
<1>2. \A c \in NetCounter : c \in Int /\ c + 1 \in Int
  BY <1>1 DEF NetCounter
<1>3. \A c \in NetCounter : NetSucc(c) \in NetCounter /\ NetSlotOf(c) \in NetSlots
  BY <1>1, <1>2, DivMod DEF NetCounter, NetSlots, NetSucc, NetSlotOf
<1> QED BY <1>1, <1>3 DEF NetCounter, NetSlots

LEMMA NetTypedInit == NetInit => NetTyped
  BY NetConstants, NetBoundAssumption DEF NetInit, NetTyped, NetTypeOK, NetPushing, ProducerPc, ConsumerPc, Frame

LEMMA NetTypedProduce == ASSUME NetTyped, Produce PROVE NetTyped'
<1> USE DEF NetTyped, NetTypeOK, NetPushing, ProducerPc, ConsumerPc
<1> USE NetBoundAssumption
<1>1. CASE SpaceHead \/ SpaceTail \/ PushHead \/ PushTail
  BY <1>1 DEF SpaceHead, SpaceTail, PushHead, PushTail, shared, consumer
<1>2. CASE TapRead
  BY <1>2 DEF TapRead, shared, consumer, Frame
<1>3. CASE BumpDrops
  BY <1>3 DEF BumpDrops, shared, consumer, Frame
<1>4. CASE PushPayload \/ PushLenCrc
  <2>1. NetSlotOf(ph) \in NetSlots /\ sent \in 0 .. sent
    BY NetConstants DEF Frame
  <2>2. slot' \in [NetSlots -> [data : 0 .. sent, crc : 0 .. sent]]
    BY <1>4, <2>1 DEF PushPayload, PushLenCrc
  <2> QED BY <1>4, <2>2 DEF PushPayload, PushLenCrc, consumer
<1>5. CASE PushAdvance
  BY <1>5, NetConstants DEF PushAdvance, consumer
<1> QED BY <1>1, <1>2, <1>3, <1>4, <1>5 DEF Produce

LEMMA NetTypedConsume == ASSUME NetTyped, Consume PROVE NetTyped'
<1> USE DEF NetTyped, NetTypeOK, NetPushing, ProducerPc, ConsumerPc
<1>1. CASE PopHead \/ PopTail \/ PopAdopt
  BY <1>1 DEF PopHead, PopTail, PopAdopt, shared, producer
<1>2. CASE PopLenCrc
  BY <1>2, NetConstants DEF PopLenCrc, shared, producer
<1>3. CASE PopSkip
  BY <1>3, NetConstants DEF PopSkip, producer
<1>4. CASE PopPayload
  BY <1>4, NetConstants DEF PopPayload, shared, producer
<1>5. CASE PopAdvance
  <2>1. cdata = ccrc => cdata \in 1 .. sent
    BY <1>5 DEF PopAdvance, Frame
  <2>2. delivered' \in Seq(1 .. sent)
    <3> DEFINE S == 1 .. sent
    <3>1. delivered \in Seq(S) /\ (cdata = ccrc => cdata \in S)
      BY <2>1
    <3>2. delivered' = IF cdata = ccrc THEN Append(delivered, cdata) ELSE delivered
      BY <1>5 DEF PopAdvance
    <3> HIDE DEF S
    <3>3. delivered' \in Seq(S)
      BY <3>1, <3>2
    <3> QED BY <3>3 DEF S
  <2> QED BY <1>5, <2>2, NetConstants DEF PopAdvance, producer
<1> QED BY <1>1, <1>2, <1>3, <1>4, <1>5 DEF Consume

LEMMA NetTypedLifetime ==
  ASSUME NetTyped, Lifetime \/ CpRestart \/ DpRestart \/ CoherencySlip
  PROVE  NetTyped'
<1> USE DEF NetTyped, NetTypeOK, NetPushing, ProducerPc, ConsumerPc
<1> USE NetBoundAssumption
<1>1. CASE CpZeroHead
  BY <1>1, NetConstants DEF CpZeroHead, CpGoto, CpPc
<1>2. CASE CpZeroTail
  BY <1>2, NetConstants DEF CpZeroTail, CpGoto, CpPc, Frame
<1>3. CASE CpRaise
  BY <1>3 DEF CpRaise, CpGoto, CpLoop, locals
<1>4. CASE DpAttach
  BY <1>4 DEF DpAttach, DpGoto, DpLoop, shared, locals
<1>5. CASE CpRestart
  <2>1. netFaults' \in 0 .. NetMaxFaults
    BY <1>5 DEF CpRestart
  <2>2. CASE ring = "c2d"
    BY <1>5, <2>1, <2>2 DEF CpRestart, CpGoto, locals
  <2>3. CASE ring # "c2d"
    BY <1>5, <2>1, <2>3 DEF CpRestart, CpGoto, locals
  <2> QED BY <2>2, <2>3
<1>6. CASE DpRestart
  BY <1>6 DEF DpRestart, DpGoto, shared, locals
<1>7. CASE CoherencySlip
  <2>1. PICK i \in NetSlots, part \in {"data", "crc"} : slot' = [slot EXCEPT ![i][part] = 0]
    BY <1>7 DEF CoherencySlip
  <2>2. 0 \in 0 .. sent
    BY DEF Frame
  <2>3. slot' \in [NetSlots -> [data : 0 .. sent, crc : 0 .. sent]]
    <3>1. CASE part = "data"
      BY <2>1, <2>2, <3>1
    <3>2. CASE part = "crc"
      BY <2>1, <2>2, <3>2
    <3> QED BY <3>1, <3>2
  <2>4. netFaults' \in 0 .. NetMaxFaults
    BY <1>7 DEF CoherencySlip
  <2> QED BY <1>7, <2>3, <2>4 DEF CoherencySlip, producer, consumer
<1> QED BY <1>1, <1>2, <1>3, <1>4, <1>5, <1>6, <1>7 DEF Lifetime

LEMMA NetTypedStep == ASSUME NetTyped, [NetNext]_netVars PROVE NetTyped'
<1>1. CASE UNCHANGED netVars
  BY <1>1 DEF netVars, NetTyped, NetTypeOK
<1> QED BY <1>1, NetTypedProduce, NetTypedConsume, NetTypedLifetime DEF NetNext

(***************************************************************************)
(* The ring before the first fault.  NetPub frames were published and      *)
(* NetCon handed over; head and tail are those counts modulo the width,    *)
(* and the slots between them hold the frames by number.                   *)
(***************************************************************************)
NetPub == NextFrame - 1
NetCon == Len(delivered)

NetCounts ==
  /\ head = NetPub % NetW /\ tail = NetCon % NetW
  /\ NetPub - NetCon \in 0 .. NetN
  /\ \A k \in 1 .. NetCon : delivered[k] = k
  /\ \A k \in NetCon + 1 .. NetPub : slot[(k - 1) % NetN] = [data |-> k, crc |-> k]

NetProducing ==
  /\ ppc \in {"spaceTail", "tap", "pushTail", "payload", "lencrc", "advance"} => ph = head
  /\ ppc \in {"tap", "pushHead", "pushTail", "payload", "lencrc", "advance"} => NetPub - NetCon < NetN
  /\ ppc # "drop" /\ drops = 0
  /\ ppc \in {"lencrc", "advance"} => slot[NetSlotOf(ph)].data = sent
  /\ ppc = "advance" => slot[NetSlotOf(ph)].crc = sent

NetConsuming ==
  /\ cpc = "popTail" => \E h \in NetCon .. NetPub : ch = h % NetW
  /\ cpc \in {"lencrc", "payload", "advance"} => ct = tail /\ NetCon < NetPub
  /\ cpc \in {"payload", "advance"} => ccrc = NetCon + 1
  /\ cpc = "advance" => cdata = NetCon + 1
  /\ cpc \notin {"adopt", "skip"}

NetBoot ==
  /\ ~netUp => ppc \in NetBooting /\ cpc \in NetBooting /\ sent = 0 /\ delivered = << >>
  /\ ~netUp => DpPc = "attach"
  /\ netUp => {ppc, cpc} \cap {"zeroHead", "zeroTail", "raise"} = {}

NetQuiet == NetCounts /\ NetProducing /\ NetConsuming /\ NetBoot
NetInv == NetTyped /\ (netFaults = 0 => NetQuiet)

LEMMA NetCountsTyped ==
  ASSUME NetTyped
  PROVE  NetPub \in Nat /\ NetCon \in Nat /\ NextFrame \in Nat /\ sent \in Nat
         /\ (ppc \in NetPushing => NetPub = sent - 1) /\ (ppc \notin NetPushing => NetPub = sent)
  BY NetBoundAssumption DEF NetTyped, NetTypeOK, NetPub, NetCon, NextFrame, Frame, NetPushing

LEMMA NetInvInit == NetInit => NetInv
<1> SUFFICES ASSUME NetInit PROVE NetQuiet
  BY NetTypedInit DEF NetInv
<1>1. NetPub = 0 /\ NetCon = 0
  BY DEF NetInit, NetPub, NetCon, NextFrame
<1>2. 0 % NetW = 0
  BY NetConstants, SmallMod
<1>3. NetCounts
  BY <1>1, <1>2, NetConstants DEF NetInit, NetCounts
<1> QED BY <1>1, <1>3 DEF NetInit, NetQuiet, NetProducing, NetConsuming, NetBoot, NetBooting, DpPc

(* The producer's steps.  Those that only read keep the counts.            *)
LEMMA QuietReads ==
  ASSUME NetTyped, NetQuiet, SpaceHead \/ SpaceTail \/ TapRead \/ PushHead \/ PushTail
  PROVE  NetQuiet'
<1> USE DEF NetQuiet
<1>1. UNCHANGED <<head, tail, slot, netUp, drops, cpc, ch, ct, ccrc, cdata, delivered>>
  BY DEF SpaceHead, SpaceTail, TapRead, PushHead, PushTail, shared, consumer
<1>2. /\ NetPub \in Nat /\ NetCon \in Nat /\ sent \in Nat
      /\ ppc \in NetPushing => NetPub = sent - 1
      /\ ppc \notin NetPushing => NetPub = sent
  BY NetCountsTyped
<1>3. NetPub' = NetPub /\ NetCon' = NetCon
  <2>1. CASE SpaceHead \/ SpaceTail \/ PushHead
    BY <2>1, <1>1 DEF SpaceHead, SpaceTail, PushHead, NetPub, NextFrame, NetCon
  <2>2. CASE TapRead
    BY <2>2, <1>1, <1>2 DEF TapRead, NetPub, NextFrame, NetCon
  <2>3. CASE PushTail
    BY <2>3, <1>1 DEF PushTail, NetPub, NextFrame, NetCon
  <2> QED BY <2>1, <2>2, <2>3
<1>4. NetCounts'
  BY <1>1, <1>3 DEF NetCounts
<1>5. NetConsuming'
  BY <1>1, <1>3 DEF NetConsuming
<1>6. ppc \in {"spaceTail", "pushTail"} => NetUsed(ph, tail) = NetPub - NetCon
  <2>1. NetPub - NetCon \in 0 .. NetW - 1
    BY <1>2, NetConstants DEF NetCounts
  <2>2. ((NetPub % NetW) - (NetCon % NetW)) % NetW = NetPub - NetCon
    <3>1. NetPub \in Int /\ NetCon \in Int /\ NetW \in Nat \ {0}
      BY <1>2, NetConstants
    <3> QED BY <2>1, <3>1, ModDiff
  <2> QED BY <2>2 DEF NetUsed, NetProducing, NetCounts
<1>7. NetProducing'
  <2>1. CASE SpaceHead \/ PushHead
    BY <1>1, <1>3, <2>1 DEF SpaceHead, PushHead, NetProducing
  <2>2. CASE SpaceTail
    BY <1>1, <1>2, <1>3, <1>6, <2>2, NetConstants DEF SpaceTail, NetProducing
  <2>3. CASE TapRead
    BY <1>1, <1>3, <2>3 DEF TapRead, NetProducing
  <2>4. CASE PushTail
    BY <1>1, <1>2, <1>3, <1>6, <2>4, NetConstants DEF PushTail, NetProducing
  <2> QED BY <2>1, <2>2, <2>3, <2>4
<1>8. NetBoot'
  BY <1>1 DEF NetBoot, NetBooting, SpaceHead, SpaceTail, TapRead, PushHead, PushTail
<1> QED BY <1>4, <1>5, <1>7, <1>8

(* A slot being written is none of those that wait to be read.             *)
LEMMA WrittenSlotFree ==
  ASSUME NetTyped, NetQuiet, ppc \in {"payload", "lencrc", "advance"}
  PROVE  /\ NetSlotOf(ph) = NetPub % NetN /\ NetSlotOf(ph) \in NetSlots
         /\ \A k \in NetCon + 1 .. NetPub : (k - 1) % NetN # NetSlotOf(ph) /\ (k - 1) % NetN \in NetSlots
<1>1. NetPub \in Nat /\ NetCon \in Nat
  BY NetCountsTyped
<1>2. NetSlotOf(ph) = NetPub % NetN
  <2>1. (NetPub % NetW) % NetN = NetPub % NetN
    <3>1. NetPub \in Int /\ NetW \in Nat \ {0} /\ NetN \in Nat \ {0} /\ NetW % NetN = 0
      BY <1>1, NetConstants
    <3> QED BY <3>1, ModMod
  <2> QED BY <2>1 DEF NetQuiet, NetProducing, NetCounts, NetSlotOf
<1>3. ASSUME NEW k \in NetCon + 1 .. NetPub
      PROVE  (k - 1) % NetN # NetPub % NetN /\ (k - 1) % NetN \in NetSlots
  <2>1. NetPub - NetCon < NetN
    BY DEF NetQuiet, NetProducing
  <2>2. k - 1 \in Int /\ NetPub - (k - 1) \in 1 .. NetN - 1
    BY <1>1, <2>1, NetConstants
  <2>3. (k - 1) % NetN # NetPub % NetN
    <3>1. NetPub - (k - 1) \in 0 .. NetN - 1 /\ NetPub # k - 1
      BY <2>2
    <3>2. NetPub \in Int /\ NetN \in Nat \ {0}
      BY <1>1, NetConstants
    <3> QED BY <2>2, <3>1, <3>2, SlotsApart
  <2> QED BY <2>2, <2>3, DivMod, NetConstants DEF NetSlots
<1>4. NetPub % NetN \in NetSlots
  BY <1>1, DivMod, NetConstants DEF NetSlots
<1> QED BY <1>2, <1>3, <1>4

LEMMA QuietWrites == ASSUME NetTyped, NetQuiet, PushPayload \/ PushLenCrc PROVE NetQuiet'
<1> USE DEF NetQuiet
<1>1. UNCHANGED <<head, tail, netUp, ph, sent, drops, cpc, ch, ct, ccrc, cdata, delivered>>
  BY DEF PushPayload, PushLenCrc, consumer
<1>2. ppc \in {"payload", "lencrc"} /\ ppc' \in {"lencrc", "advance"}
  BY DEF PushPayload, PushLenCrc
<1>3. NetPub' = NetPub /\ NetCon' = NetCon
  BY <1>1, <1>2 DEF NetPub, NextFrame, NetCon
<1>4. slot \in [NetSlots -> [data : 0 .. sent, crc : 0 .. sent]]
  BY DEF NetTyped, NetTypeOK
<1>5. \A i \in NetSlots : i # NetSlotOf(ph) => slot'[i] = slot[i]
  BY <1>4 DEF PushPayload, PushLenCrc
<1>6. NetCounts'
  BY <1>1, <1>2, <1>3, <1>5, WrittenSlotFree DEF NetCounts
<1>7. NetConsuming'
  BY <1>1, <1>3 DEF NetConsuming
<1>8. NetSlotOf(ph) \in NetSlots
  BY <1>2, WrittenSlotFree
<1>9. NetProducing'
  <2>1. CASE PushPayload
    BY <1>1, <1>3, <1>4, <1>8, <2>1 DEF PushPayload, NetProducing
  <2>2. CASE PushLenCrc
    BY <1>1, <1>3, <1>4, <1>8, <2>2 DEF PushLenCrc, NetProducing
  <2> QED BY <2>1, <2>2
<1>10. NetBoot'
  BY <1>1, <1>2 DEF NetBoot, NetBooting
<1> QED BY <1>6, <1>7, <1>9, <1>10

LEMMA QuietAdvance ==
  ASSUME NetTyped, NetQuiet, PushAdvance
  PROVE  NetQuiet' /\ NetPub' = NetPub + 1 /\ NetCon' = NetCon /\ NetPub - NetCon < NetN
<1> USE DEF NetQuiet
<1>1. UNCHANGED <<tail, slot, netUp, ph, sent, drops, cpc, ch, ct, ccrc, cdata, delivered>>
  BY DEF PushAdvance, consumer
<1>2. ppc = "advance" /\ ppc' = "spaceHead" /\ head' = NetSucc(ph)
  BY DEF PushAdvance
<1>3. NetPub \in Nat /\ NetCon \in Nat /\ NetPub = sent - 1 /\ sent \in Nat
  BY <1>2, NetCountsTyped DEF NetPushing
<1>4. NetPub' = NetPub + 1 /\ NetCon' = NetCon
  <2>1. NextFrame' = sent + 1
    BY <1>1, <1>2 DEF NextFrame
  <2>2. NetPub' = sent + 1 - 1
    BY <1>3, <2>1 DEF NetPub, NextFrame
  <2> QED BY <1>1, <1>3, <2>2 DEF NetCon
<1>5. NetPub - NetCon < NetN
  BY <1>2 DEF NetProducing
<1>6. head' = NetPub' % NetW
  BY <1>2, <1>3, <1>4, NetConstants, ModSucc DEF NetSucc, NetProducing, NetCounts
<1>7. slot[NetPub % NetN] = [data |-> sent, crc |-> sent]
  <2>1. NetSlotOf(ph) = NetPub % NetN /\ NetSlotOf(ph) \in NetSlots
    BY <1>2, WrittenSlotFree
  <2>2. slot[NetSlotOf(ph)] \in [data : 0 .. sent, crc : 0 .. sent]
    BY <2>1 DEF NetTyped, NetTypeOK
  <2> QED BY <1>2, <2>1, <2>2 DEF NetProducing
<1>8. NetCounts'
  <2>1. ASSUME NEW k \in NetCon' + 1 .. NetPub' PROVE slot'[(k - 1) % NetN] = [data |-> k, crc |-> k]
    <3>1. CASE k = NetPub + 1
      <4>1. k - 1 = NetPub /\ k = sent
        BY <1>3, <3>1
      <4> QED BY <1>1, <1>7, <4>1
    <3>2. CASE k # NetPub + 1
      BY <1>1, <1>3, <1>4, <3>2 DEF NetCounts
    <3> QED BY <3>1, <3>2
  <2>2. NetPub' - NetCon' \in 0 .. NetN
    BY <1>3, <1>4, <1>5, NetConstants DEF NetCounts
  <2> QED BY <1>1, <1>4, <1>6, <2>1, <2>2 DEF NetCounts
<1>9. NetConsuming'
  BY <1>1, <1>3, <1>4 DEF NetConsuming
<1>10. NetProducing' /\ NetBoot'
  BY <1>1, <1>2 DEF NetProducing, NetBoot, NetBooting
<1> QED BY <1>4, <1>5, <1>8, <1>9, <1>10

(* The consumer's steps.                                                   *)
LEMMA QuietLooks == ASSUME NetTyped, NetQuiet, PopHead \/ PopTail PROVE NetQuiet'
<1> USE DEF NetQuiet
<1>1. UNCHANGED <<head, tail, slot, netUp, ppc, ph, sent, drops, delivered>>
  BY DEF PopHead, PopTail, shared, producer
<1>2. NetPub' = NetPub /\ NetCon' = NetCon /\ NetPub \in Nat /\ NetCon \in Nat
  BY <1>1, NetCountsTyped DEF NetPub, NextFrame, NetCon
<1>3. NetCounts' /\ NetProducing'
  BY <1>1, <1>2 DEF NetCounts, NetProducing
<1>4. NetConsuming'
  <2>1. CASE PopHead
    <3>1. NetPub \in NetCon .. NetPub
      BY <1>2 DEF NetCounts
    <3> QED BY <1>2, <2>1, <3>1 DEF PopHead, NetConsuming, NetCounts
  <2>2. CASE PopTail
    <3>1. PICK h \in NetCon .. NetPub : ch = h % NetW
      BY <2>2 DEF PopTail, NetConsuming
    <3>2. NetUsed(ch, tail) = h - NetCon
      <4>1. h \in Int /\ NetCon \in Int /\ NetW \in Nat \ {0} /\ h - NetCon \in 0 .. NetW - 1
        BY <1>2, NetConstants DEF NetCounts
      <4>2. ((h % NetW) - (NetCon % NetW)) % NetW = h - NetCon
        BY <4>1, ModDiff
      <4> QED BY <3>1, <4>2 DEF NetUsed, NetCounts
    <3>3. h - NetCon \in 0 .. NetN
      BY <1>2, NetConstants DEF NetCounts
    <3>4. ch # tail => NetCon < NetPub
      BY <1>2, <3>1 DEF NetCounts
    <3>5. cpc' \in {"popHead", "lencrc"} /\ (cpc' = "lencrc" => ch # tail) /\ ct' = tail
      BY <2>2, <3>2, <3>3, NetConstants DEF PopTail
    <3> QED BY <1>1, <1>2, <3>4, <3>5 DEF NetConsuming
  <2> QED BY <2>1, <2>2
<1>5. NetBoot'
  BY <1>1 DEF NetBoot, NetBooting, PopHead, PopTail
<1> QED BY <1>3, <1>4, <1>5

LEMMA OldestSlot ==
  ASSUME NetTyped, NetQuiet, cpc \in {"lencrc", "payload", "advance"}
  PROVE  slot[NetSlotOf(ct)] = [data |-> NetCon + 1, crc |-> NetCon + 1]
<1>1. NetPub \in Nat /\ NetCon \in Nat /\ NetCon < NetPub /\ ct = NetCon % NetW
  BY NetCountsTyped DEF NetQuiet, NetConsuming, NetCounts
<1>2. NetSlotOf(ct) = NetCon % NetN
  <2>1. NetCon \in Int /\ NetW \in Nat \ {0} /\ NetN \in Nat \ {0} /\ NetW % NetN = 0
    BY <1>1, NetConstants
  <2> QED BY <1>1, <2>1, ModMod DEF NetSlotOf
<1>3. NetCon + 1 \in NetCon + 1 .. NetPub /\ (NetCon + 1) - 1 = NetCon
  BY <1>1
<1> QED BY <1>2, <1>3 DEF NetQuiet, NetCounts

LEMMA QuietTakes == ASSUME NetTyped, NetQuiet, PopLenCrc \/ PopPayload PROVE NetQuiet'
<1> USE DEF NetQuiet
<1>1. UNCHANGED <<head, tail, slot, netUp, ppc, ph, sent, drops, ct, delivered>>
  BY DEF PopLenCrc, PopPayload, shared, producer
<1>2. NetPub' = NetPub /\ NetCon' = NetCon /\ NetCon \in Nat
  BY <1>1, NetCountsTyped DEF NetPub, NextFrame, NetCon
<1>3. NetCounts' /\ NetProducing'
  BY <1>1, <1>2 DEF NetCounts, NetProducing
<1>4. slot[NetSlotOf(ct)] = [data |-> NetCon + 1, crc |-> NetCon + 1]
  BY OldestSlot DEF PopLenCrc, PopPayload
<1>5. NetConsuming'
  BY <1>1, <1>2, <1>4 DEF NetConsuming, PopLenCrc, PopPayload
<1>6. NetBoot'
  BY <1>1 DEF NetBoot, NetBooting, PopLenCrc, PopPayload
<1> QED BY <1>3, <1>5, <1>6

LEMMA QuietDelivers ==
  ASSUME NetTyped, NetQuiet, PopAdvance
  PROVE  /\ NetQuiet' /\ NetPub' = NetPub /\ NetCon' = NetCon + 1 /\ NetCon < NetPub
         /\ delivered' = Append(delivered, NetCon + 1)
<1> USE DEF NetQuiet
<1>1. UNCHANGED <<head, slot, netUp, ppc, ph, sent, drops>>
  BY DEF PopAdvance, producer
<1>2. /\ cpc = "advance" /\ cpc' = "popHead" /\ tail' = NetSucc(ct)
      /\ delivered' = IF cdata = ccrc THEN Append(delivered, cdata) ELSE delivered
  BY DEF PopAdvance
<1>3. ct = tail /\ NetCon < NetPub /\ ccrc = NetCon + 1 /\ cdata = NetCon + 1
  BY <1>2 DEF NetConsuming
<1>4. NetPub \in Nat /\ NetCon \in Nat /\ delivered \in Seq(1 .. sent)
  BY NetCountsTyped DEF NetTyped, NetTypeOK
<1>5. delivered' = Append(delivered, NetCon + 1)
  BY <1>2, <1>3
<1>6. NetPub' = NetPub /\ NetCon' = NetCon + 1
  BY <1>1, <1>4, <1>5 DEF NetPub, NextFrame, NetCon
<1>7. tail' = NetCon' % NetW
  <2>1. NetCon \in Int /\ NetW \in Nat \ {0}
    BY <1>4, NetConstants
  <2>2. ((NetCon % NetW) + 1) % NetW = (NetCon + 1) % NetW
    BY <2>1, ModSucc
  <2> QED BY <1>2, <1>3, <1>6, <2>2 DEF NetSucc, NetCounts
<1>8. \A k \in 1 .. NetCon' : delivered'[k] = k
  BY <1>4, <1>5, <1>6 DEF NetCounts, NetCon
<1>9. NetPub' - NetCon' \in 0 .. NetN
  BY <1>3, <1>4, <1>6, NetConstants DEF NetCounts
<1>10. ASSUME NEW k \in NetCon' + 1 .. NetPub' PROVE slot'[(k - 1) % NetN] = [data |-> k, crc |-> k]
  <2>1. k \in NetCon + 1 .. NetPub
    BY <1>4, <1>6
  <2> QED BY <1>1, <2>1 DEF NetCounts
<1>11. NetCounts'
  BY <1>1, <1>6, <1>7, <1>8, <1>9, <1>10 DEF NetCounts
<1>12. NetProducing'
  <2>1. NetPub' - NetCon' < NetPub - NetCon
    BY <1>4, <1>6
  <2>2. NetPub - NetCon < NetN => NetPub' - NetCon' < NetN
    BY <1>4, <1>6, NetConstants
  <2> QED BY <1>1, <2>2 DEF NetProducing
<1>13. NetConsuming' /\ NetBoot'
  BY <1>1, <1>2 DEF NetConsuming, NetBoot, NetBooting
<1> QED BY <1>3, <1>5, <1>6, <1>11, <1>12, <1>13

(* Starting up.                                                            *)
LEMMA QuietLifetime ==
  ASSUME NetTyped, NetQuiet, Lifetime
  PROVE  NetQuiet' /\ UNCHANGED <<NetPub, delivered, slot>> /\ (UNCHANGED <<head, tail>>)
<1> USE DEF NetQuiet
<1>1. NetPub \in Nat /\ NetCon \in Nat
  BY NetCountsTyped
<1>2. CASE CpZeroHead \/ CpZeroTail
  <2>1. ~netUp /\ sent = 0 /\ delivered = << >> /\ ppc \in NetBooting /\ cpc \in NetBooting
    BY <1>2 DEF CpZeroHead, CpZeroTail, CpPc, NetBoot
  <2>2. NetPub = 0 /\ NetCon = 0
    BY <2>1 DEF NetPub, NextFrame, NetCon, NetBooting
  <2>3. 0 % NetW = 0 /\ 0 - 0 \in 0 .. NetN
    BY NetConstants, SmallMod
  <2>4. head = 0 /\ tail = 0 /\ drops = 0
    BY <2>2, <2>3 DEF NetCounts, NetProducing
  <2>5. UNCHANGED <<head, tail, slot, netUp, sent, drops, delivered>>
    BY <1>2, <2>4 DEF CpZeroHead, CpZeroTail
  <2>6. ppc' \in NetBooting /\ cpc' \in NetBooting
    BY <1>2, <2>1 DEF CpZeroHead, CpZeroTail, CpGoto, NetBooting
  <2>7. NetPub' = 0 /\ NetCon' = 0
    BY <2>1, <2>5, <2>6 DEF NetPub, NextFrame, NetCon, NetBooting
  <2>8. NetCounts'
    BY <2>2, <2>5, <2>7 DEF NetCounts
  <2>9. DpPc' = "attach"
    BY <1>2, <2>1 DEF CpZeroHead, CpZeroTail, CpGoto, DpPc, NetBoot
  <2> QED BY <2>1, <2>2, <2>4, <2>5, <2>6, <2>7, <2>8, <2>9 DEF NetProducing, NetConsuming, NetBoot, NetBooting
<1>3. CASE CpRaise \/ DpAttach
  <2>1. UNCHANGED <<head, tail, slot, sent, drops, delivered, ph, ch, ct, ccrc, cdata>> /\ netUp'
    BY <1>3 DEF CpRaise, DpAttach, shared, locals
  <2>2. \/ ppc \in NetBooting /\ ppc' = "spaceHead" /\ cpc' = cpc
        \/ cpc \in NetBooting /\ cpc' = "popHead" /\ ppc' = ppc
    BY <1>3 DEF CpRaise, DpAttach, CpGoto, DpGoto, CpPc, DpPc, CpLoop, DpLoop, NetBooting
  <2>3. NetPub' = NetPub /\ NetCon' = NetCon
    BY <2>1, <2>2 DEF NetPub, NextFrame, NetCon, NetBooting
  <2>4. NetCounts'
    BY <2>1, <2>3 DEF NetCounts
  <2>5. NetProducing' /\ NetConsuming'
    BY <2>1, <2>2, <2>3 DEF NetProducing, NetConsuming
  <2>6. NetBoot'
    <3>1. CASE CpRaise
      BY <2>1, <3>1 DEF CpRaise, CpGoto, CpPc, CpLoop, DpPc, NetBoot
    <3>2. CASE DpAttach
      BY <2>1, <2>2, <3>2 DEF DpAttach, NetBoot
    <3> QED BY <1>3, <3>1, <3>2
  <2> QED BY <2>1, <2>3, <2>4, <2>5, <2>6
<1> QED BY <1>2, <1>3 DEF Lifetime

LEMMA NetStep == ASSUME NetInv, [NetNext]_netVars PROVE NetInv'
<1> SUFFICES ASSUME netFaults' = 0 PROVE NetQuiet'
  BY NetTypedStep DEF NetInv
<1>1. CASE UNCHANGED netVars
  BY <1>1 DEF netVars, NetInv, NetQuiet, NetCounts, NetProducing, NetConsuming, NetBoot, NetPub, NextFrame, NetCon, DpPc
<1>2. CASE NetNext
  <2>1. ~(CpRestart \/ DpRestart \/ CoherencySlip)
    BY NetBoundAssumption DEF CpRestart, DpRestart, CoherencySlip, NetInv, NetTyped, NetTypeOK
  <2>2. netFaults' = netFaults
    BY <1>2, <2>1 DEF NetNext, Produce, SpaceHead, SpaceTail, TapRead, PushHead, PushTail, BumpDrops, PushPayload,
       PushLenCrc, PushAdvance, Consume, PopHead, PopTail, PopAdopt, PopLenCrc, PopSkip, PopPayload, PopAdvance,
       Lifetime, CpZeroHead, CpZeroTail, CpRaise, DpAttach
  <2>3. NetTyped /\ NetQuiet
    BY <2>2 DEF NetInv
  <2>4. ~BumpDrops /\ ~PopAdopt /\ ~PopSkip
    BY <2>3 DEF BumpDrops, PopAdopt, PopSkip, NetQuiet, NetProducing, NetConsuming
  <2>5. CASE Produce
    BY <2>3, <2>4, <2>5, QuietReads, QuietWrites, QuietAdvance DEF Produce
  <2>6. CASE Consume
    BY <2>3, <2>4, <2>6, QuietLooks, QuietTakes, QuietDelivers DEF Consume
  <2>7. CASE Lifetime
    BY <2>3, <2>7, QuietLifetime
  <2> QED BY <1>2, <2>1, <2>5, <2>6, <2>7 DEF NetNext
<1> QED BY <1>1, <1>2

(***************************************************************************)
(* Both ends of the ring run without a common clock: before the first      *)
(* fault the two counters are the numbers of frames published and handed   *)
(* over, and the slots between them hold those frames.                     *)
(***************************************************************************)
THEOREM NetInvariance == NetSpec => []NetInv
  BY NetInvInit, NetStep, PTL DEF NetSpec

(* The CP-DP ring keeps its indices in their width through every restart,  *)
(* and drops no admitted frame before the first: the space seen before the *)
(* TAP was read is still there at the push.                                *)
THEOREM DpnetRingSafe == NetSpec => []NetSafe
<1>1. NetInv => NetSafe
  BY DEF NetInv, NetTyped, NetQuiet, NetProducing, NetSafe, NeverDropped
<1> QED BY <1>1, NetInvariance, PTL

(* Runs of consecutive numbers.                                            *)
Run(c, n) == [i \in 1 .. n |-> c + i]

LEMMA RunSeq == ASSUME NEW c \in Nat, NEW n \in Nat PROVE Run(c, n) \in Seq(Nat) /\ Len(Run(c, n)) = n
<1>1. Run(c, n) \in [1 .. n -> Nat]
  BY DEF Run
<1> QED BY <1>1

LEMMA IsRun ==
  ASSUME NEW c \in Nat, NEW n \in Nat, NEW s \in Seq(Nat), Len(s) = n, \A i \in 1 .. n : s[i] = c + i
  PROVE  s = Run(c, n)
<1>1. s = [i \in 1 .. n |-> s[i]]
  OBVIOUS
<1> QED BY <1>1 DEF Run

LEMMA RunGrows ==
  ASSUME NEW c \in Nat, NEW n \in Nat
  PROVE  Append(Run(c, n), c + n + 1) = Run(c, n + 1)
<1>1. PICK r : r = Run(c, n)
  OBVIOUS
<1>2. r \in Seq(Nat) /\ Len(r) = n /\ \A i \in 1 .. n : r[i] = c + i
  BY <1>1, RunSeq DEF Run
<1>3. PICK s : s = Append(r, c + n + 1)
  OBVIOUS
<1>4. s \in Seq(Nat) /\ Len(s) = n + 1 /\ s[n + 1] = c + n + 1
  BY <1>2, <1>3
<1>5. \A i \in 1 .. n : s[i] = c + i
  BY <1>2, <1>3
<1>6. \A i \in 1 .. n + 1 : s[i] = c + i
  BY <1>4, <1>5
<1>7. s = Run(c, n + 1)
  BY <1>4, <1>6, IsRun
<1> QED BY <1>1, <1>3, <1>7

LEMMA RunShrinks ==
  ASSUME NEW c \in Nat, NEW n \in Nat \ {0}
  PROVE  Run(c, n) # << >> /\ Head(Run(c, n)) = c + 1 /\ Tail(Run(c, n)) = Run(c + 1, n - 1)
<1>1. PICK r : r = Run(c, n)
  OBVIOUS
<1>2. r \in Seq(Nat) /\ Len(r) = n /\ \A i \in 1 .. n : r[i] = c + i
  BY <1>1, RunSeq DEF Run
<1>3. r # << >> /\ Head(r) = c + 1
  BY <1>2
<1>4. PICK s : s = Tail(r)
  OBVIOUS
<1>5. s \in Seq(Nat) /\ Len(s) = n - 1 /\ \A i \in 1 .. n - 1 : s[i] = r[i + 1]
  BY <1>2, <1>3, <1>4
<1>6. \A i \in 1 .. n - 1 : s[i] = c + 1 + i
  BY <1>2, <1>5
<1>7. s = Run(c + 1, n - 1)
  BY <1>5, <1>6, IsRun
<1> QED BY <1>1, <1>3, <1>4, <1>7

(* The abstract queue is the numbers not handed over yet.                  *)
LEMMA QueueIsRun == NetTyped /\ NetQuiet => Queue = Run(NetCon, NetPub - NetCon)
<1> SUFFICES ASSUME NetTyped, NetQuiet PROVE Queue = Run(NetCon, NetPub - NetCon)
  OBVIOUS
<1>1. NetPub \in Nat /\ NetCon \in Nat /\ NetPub - NetCon \in 0 .. NetN
  BY NetCountsTyped DEF NetQuiet, NetCounts
<1>2. NetUsed(head, tail) = NetPub - NetCon
  <2>1. NetPub \in Int /\ NetCon \in Int /\ NetW \in Nat \ {0} /\ NetPub - NetCon \in 0 .. NetW - 1
    BY <1>1, NetConstants
  <2>2. ((NetPub % NetW) - (NetCon % NetW)) % NetW = NetPub - NetCon
    BY <2>1, ModDiff
  <2> QED BY <2>2 DEF NetUsed, NetQuiet, NetCounts
<1>3. ASSUME NEW i \in 1 .. NetPub - NetCon PROVE slot[NetSlotOf(tail + i - 1)].crc = NetCon + i
  <2>1. NetCon \in Int /\ i - 1 \in Int /\ NetW \in Nat \ {0} /\ NetN \in Nat \ {0} /\ NetW % NetN = 0
    BY <1>1, NetConstants
  <2>2. ((NetCon % NetW) + (i - 1)) % NetN = (NetCon + (i - 1)) % NetN
    <3>1. PICK k \in Int : k = i - 1
      BY <2>1
    <3>2. ((NetCon % NetW) + k) % NetN = (NetCon + k) % NetN
      <4>1. NetCon \in Int /\ k \in Int /\ NetN \in Nat \ {0} /\ NetW \in Nat \ {0} /\ NetW % NetN = 0
        BY <2>1, <3>1
      <4> QED BY <4>1, SlotOfSum
    <3> QED BY <3>1, <3>2
  <2>3. tail \in Int /\ tail + i - 1 = tail + (i - 1)
    BY NetConstants DEF NetTyped, NetTypeOK, NetCounter
  <2>4. NetSlotOf(tail + i - 1) = ((NetCon + i) - 1) % NetN
    <3>1. NetCon + (i - 1) = (NetCon + i) - 1
      BY <1>1
    <3> QED BY <2>2, <2>3, <3>1 DEF NetSlotOf, NetQuiet, NetCounts
  <2>5. NetCon + i \in NetCon + 1 .. NetPub
    BY <1>1
  <2>6. slot[((NetCon + i) - 1) % NetN] = [data |-> NetCon + i, crc |-> NetCon + i]
    BY <2>5 DEF NetQuiet, NetCounts
  <2> QED BY <2>4, <2>6
<1> QED BY <1>2, <1>3 DEF Queue, Run

(* What a step needs to know of the two states it relates.                 *)
QueueRuns ==
  /\ NetPub \in Nat /\ NetCon \in Nat /\ NextFrame = NetPub + 1
  /\ netFaults = 0 => Queue = Run(NetCon, NetPub - NetCon)

LEMMA QueueAlwaysRuns == NetInv => QueueRuns
<1> SUFFICES ASSUME NetInv PROVE QueueRuns
  OBVIOUS
<1>1. NetPub \in Nat /\ NetCon \in Nat /\ NextFrame \in Nat
  BY NetCountsTyped DEF NetInv
<1>2. NextFrame = NetPub + 1
  BY <1>1 DEF NetPub
<1> QED BY <1>1, <1>2, QueueIsRun DEF QueueRuns, NetInv

(***************************************************************************)
(* The CP-DP ring is a lossless bounded FIFO channel while neither end     *)
(* restarts and no slot is garbled: a publication is a send, the end of a  *)
(* successful pop is a receive, and every other access is a stutter.       *)
(***************************************************************************)
THEOREM DpnetRingIsFifo == NetSpec => FifoSpec
<1>1. NetInit => Fifo!Init
  <2> SUFFICES ASSUME NetInit PROVE Fifo!Init
    OBVIOUS
  <2>1. NetTyped /\ NetQuiet
    BY NetInvInit DEF NetInit, NetInv
  <2>2. NetPub = 0 /\ NetCon = 0 /\ NextFrame = 1
    BY DEF NetInit, NetPub, NetCon, NextFrame
  <2>3. Queue = Run(0, 0)
    BY <2>1, <2>2, QueueIsRun
  <2>4. Run(0, 0) = << >>
    BY RunSeq
  <2> QED BY <2>2, <2>3, <2>4 DEF Fifo!Init, NetInit
<1>2. ASSUME NetInv, NetInv', QueueRuns, QueueRuns', [NetNext]_netVars
      PROVE  [netFaults' = 0 => Fifo!Next]_<<Queue, delivered, NextFrame>>
  <2> SUFFICES ASSUME netFaults' = 0, ~UNCHANGED <<Queue, delivered, NextFrame>> PROVE Fifo!Next
    OBVIOUS
  <2>1. NetNext
    BY <1>2 DEF netVars, Queue, NextFrame
  <2>2. ~(CpRestart \/ DpRestart \/ CoherencySlip)
    BY <1>2, NetBoundAssumption DEF CpRestart, DpRestart, CoherencySlip, NetInv, NetTyped, NetTypeOK
  <2>3. netFaults = 0
    BY <2>1, <2>2 DEF NetNext, Produce, SpaceHead, SpaceTail, TapRead, PushHead, PushTail, BumpDrops, PushPayload,
       PushLenCrc, PushAdvance, Consume, PopHead, PopTail, PopAdopt, PopLenCrc, PopSkip, PopPayload, PopAdvance,
       Lifetime, CpZeroHead, CpZeroTail, CpRaise, DpAttach
  <2>4. NetTyped /\ NetQuiet
    BY <1>2, <2>3 DEF NetInv
  <2>5. Queue = Run(NetCon, NetPub - NetCon) /\ Queue' = Run(NetCon', NetPub' - NetCon')
    BY <1>2, <2>3 DEF QueueRuns
  <2>6. /\ NetPub \in Nat /\ NetCon \in Nat /\ NetPub - NetCon \in Nat /\ NextFrame = NetPub + 1
        /\ NextFrame' = NetPub' + 1
    BY <1>2, <2>4 DEF QueueRuns, NetQuiet, NetCounts
  <2>7. CASE PushAdvance
    <3>1. NetPub' = NetPub + 1 /\ NetCon' = NetCon /\ NetPub - NetCon < NetN /\ delivered' = delivered
      BY <2>4, <2>7, QuietAdvance DEF PushAdvance, consumer
    <3>2. Len(Queue) < NetN
      BY <2>5, <2>6, <3>1, RunSeq
    <3>3. Queue' = Append(Queue, NextFrame)
      <4>1. PICK n \in Nat : n = NetPub - NetCon
        BY <2>6
      <4>2. Append(Run(NetCon, n), NetCon + n + 1) = Run(NetCon, n + 1)
        BY <2>6, RunGrows
      <4>3. NetCon + n + 1 = NextFrame /\ n + 1 = NetPub' - NetCon'
        BY <2>6, <3>1, <4>1
      <4> QED BY <2>5, <3>1, <4>1, <4>2, <4>3
    <3>4. NextFrame <= MaxFrames
      BY <2>4, <2>7 DEF PushAdvance, NextFrame, NetTyped, NetTypeOK, Frame
    <3>5. Fifo!Send
      BY <2>6, <3>1, <3>2, <3>3, <3>4 DEF Fifo!Send
    <3> QED BY <3>5 DEF Fifo!Next
  <2>8. CASE PopAdvance
    <3>1. NetPub' = NetPub /\ NetCon' = NetCon + 1 /\ NetCon < NetPub /\ delivered' = Append(delivered, NetCon + 1)
      BY <2>4, <2>8, QuietDelivers
    <3>2. PICK n \in Nat \ {0} : n = NetPub - NetCon
      BY <2>6, <3>1
    <3>3. Run(NetCon, n) # << >> /\ Head(Run(NetCon, n)) = NetCon + 1 /\ Tail(Run(NetCon, n)) = Run(NetCon + 1, n - 1)
      BY <2>6, RunShrinks
    <3>4. NetPub' - NetCon' = n - 1
      BY <2>6, <3>1, <3>2
    <3>5. Fifo!Receive
      BY <2>5, <2>6, <3>1, <3>2, <3>3, <3>4 DEF Fifo!Receive
    <3> QED BY <3>5 DEF Fifo!Next
  <2>9. ~(NetPub' = NetPub /\ delivered' = delivered)
    BY <2>5, <2>6 DEF NetCon
  <2>10. ~BumpDrops /\ ~PopAdopt /\ ~PopSkip
    BY <2>4 DEF BumpDrops, PopAdopt, PopSkip, NetQuiet, NetProducing, NetConsuming
  <2>11. ~(SpaceHead \/ SpaceTail \/ TapRead \/ PushHead \/ PushTail \/ PushPayload \/ PushLenCrc)
    <3>1. SpaceHead \/ SpaceTail \/ TapRead \/ PushHead \/ PushTail \/ PushPayload \/ PushLenCrc
          => NextFrame' = NextFrame /\ delivered' = delivered
      <4>1. CASE SpaceHead \/ SpaceTail \/ PushHead \/ PushPayload \/ PushLenCrc
        BY <4>1 DEF SpaceHead, SpaceTail, PushHead, PushPayload, PushLenCrc, NextFrame, consumer
      <4>2. CASE TapRead
        BY <4>2, <2>4, NetCountsTyped DEF TapRead, NextFrame, consumer
      <4>3. CASE PushTail
        BY <4>3 DEF PushTail, NextFrame, consumer
      <4> QED BY <4>1, <4>2, <4>3
    <3> QED BY <2>9, <3>1 DEF NetPub
  <2>12. ~(PopHead \/ PopTail \/ PopLenCrc \/ PopPayload)
    BY <2>9 DEF PopHead, PopTail, PopLenCrc, PopPayload, producer, NetPub, NextFrame
  <2>13. ~Lifetime
    BY <2>4, <2>9, QuietLifetime
  <2> QED BY <2>1, <2>2, <2>7, <2>8, <2>10, <2>11, <2>12, <2>13 DEF NetNext, Produce, Consume
<1> QED BY <1>1, <1>2, QueueAlwaysRuns, NetInvariance, PTL DEF NetSpec, FifoSpec

-----------------------------------------------------------------------------
(* The command transport.                                                  *)

CpdpDaemonPc == {"zeroReqHead", "zeroReqTail", "zeroRspHead", "publishMagic", "poll",
                 "snapshot", "handle", "reply", "release"}
CpdpToolPc == {"off", "attachTx", "attachRx", "idle", "doorbell", "wait", "take"}
Optional == Message \cup {None}
CpdpReqs == [head : CpdpCounter, tail : CpdpCounter, slot : [CpdpSlots -> Optional]]
CpdpRsps == [head : CpdpCounter, slot : [CpdpSlots -> Optional]]
CpdpDaemons == [pc : CpdpDaemonPc, tail : CpdpCounter, rhead : CpdpCounter, copy : Optional]
CpdpTools == [pc : CpdpToolPc, seq : 0 .. MaxCalls, tx : CpdpCounter, rx : CpdpCounter, call : Call \cup {None}]

(* The ends are records, a tool counts no more calls than were made, and   *)
(* one that waits has a call.                                              *)
CpdpTyped ==
  /\ magic \in BOOLEAN /\ cpdpReq \in CpdpReqs /\ rsp \in CpdpRsps
  /\ daemon \in CpdpDaemons /\ tool \in CpdpTools
  /\ calls \in 0 .. MaxCalls /\ tool.seq <= calls
  /\ tool.pc \in {"doorbell", "wait", "take"} => tool.call \in Call /\ tool.seq \in Call
  /\ clean \in BOOLEAN /\ executed \in [Call -> Nat] /\ answers \subseteq Call \X Call

LEMMA CpdpConstants ==
  /\ CpdpN \in Nat \ {0} /\ CpdpW \in Nat \ {0} /\ CpdpW % CpdpN = 0 /\ CpdpW > 2
  /\ 0 \in CpdpCounter
  /\ \A c \in CpdpCounter : CpdpSucc(c) \in CpdpCounter /\ CpdpSlotOf(c) \in CpdpSlots
<1>1. CpdpN \in Nat \ {0} /\ CpdpW \in Nat \ {0} /\ CpdpW % CpdpN = 0 /\ CpdpW > 2
  BY CpdpGeometryAssumption
<1>2. \A c \in CpdpCounter : c \in Int /\ c + 1 \in Int
  BY <1>1 DEF CpdpCounter
<1>3. \A c \in CpdpCounter : CpdpSucc(c) \in CpdpCounter /\ CpdpSlotOf(c) \in CpdpSlots
  BY <1>1, <1>2, DivMod DEF CpdpCounter, CpdpSlots, CpdpSucc, CpdpSlotOf
<1> QED BY <1>1, <1>3 DEF CpdpCounter

LEMMA OffTool == CpdpOff \in CpdpTools /\ CpdpOff.pc = "off" /\ CpdpOff.seq = 0
  BY CpdpConstants, CpdpBoundAssumption DEF CpdpOff, CpdpTools, CpdpToolPc

LEMMA CpdpTypedInit == CpdpInit => CpdpTyped
<1> SUFFICES ASSUME CpdpInit PROVE CpdpTyped
  OBVIOUS
<1> USE CpdpConstants DEF CpdpInit, Optional
<1>1. cpdpReq \in CpdpReqs
  BY DEF CpdpReqs
<1>2. rsp \in CpdpRsps
  BY DEF CpdpRsps
<1>3. daemon \in CpdpDaemons
  BY DEF CpdpDaemons, CpdpDaemonPc
<1>4. executed \in [Call -> Nat]
  OBVIOUS
<1>5. tool \in CpdpTools /\ tool.seq <= calls /\ tool.pc = "off" /\ calls \in 0 .. MaxCalls
  BY OffTool, CpdpBoundAssumption
<1> QED BY <1>1, <1>2, <1>3, <1>4, <1>5 DEF CpdpTyped

LEMMA CpdpTypedDaemon == ASSUME CpdpTyped, Daemon \/ DaemonRestart PROVE CpdpTyped'
<1> USE CpdpConstants
<1> USE DEF CpdpTyped, CpdpReqs, CpdpRsps, CpdpDaemons, CpdpDaemonPc, Optional
<1>1. CASE ZeroReqHead \/ ZeroReqTail \/ ZeroRspHead \/ PublishMagic
  <2>1. CASE ZeroReqHead
    BY <2>1 DEF ZeroReqHead, toolSide
  <2>2. CASE ZeroReqTail
    BY <2>2 DEF ZeroReqTail, toolSide
  <2>3. CASE ZeroRspHead
    BY <2>3 DEF ZeroRspHead, toolSide
  <2>4. CASE PublishMagic
    BY <2>4 DEF PublishMagic, toolSide
  <2> QED BY <1>1, <2>1, <2>2, <2>3, <2>4
<1>2. CASE Resync \/ CpdpPoll
  BY <1>2 DEF Resync, CpdpPoll, toolSide
<1>3. CASE Snapshot
  <2>1. cpdpReq.slot[CpdpSlotOf(daemon.tail)] \in Optional
    OBVIOUS
  <2> QED BY <1>3, <2>1 DEF Snapshot, toolSide
<1>4. CASE CpdpHandle
  <2>1. rsp' \in CpdpRsps
    <3>1. rsp.slot' = [rsp.slot EXCEPT ![CpdpSlotOf(daemon.rhead)] = daemon.copy]
      BY <1>4 DEF CpdpHandle
    <3>2. rsp.slot' \in [CpdpSlots -> Optional]
      BY <3>1
    <3> QED BY <1>4, <3>2 DEF CpdpHandle
  <2>2. executed' \in [Call -> Nat]
    BY <1>4 DEF CpdpHandle
  <2>3. daemon' \in CpdpDaemons
    BY <1>4 DEF CpdpHandle
  <2> QED BY <1>4, <2>1, <2>2, <2>3 DEF CpdpHandle, toolSide
<1>5. CASE CpdpFinish
  <2>1. daemon' \in CpdpDaemons
    <3>1. \/ daemon' = [daemon EXCEPT !.pc = "release", !.rhead = CpdpSucc(@)]
          \/ daemon' = [daemon EXCEPT !.pc = "poll", !.tail = CpdpSucc(@)]
      BY <1>5 DEF CpdpFinish
    <3>2. CpdpSucc(daemon.rhead) \in CpdpCounter /\ CpdpSucc(daemon.tail) \in CpdpCounter
      OBVIOUS
    <3>3. CASE daemon' = [daemon EXCEPT !.pc = "release", !.rhead = CpdpSucc(@)]
      BY <3>2, <3>3
    <3>4. CASE daemon' = [daemon EXCEPT !.pc = "poll", !.tail = CpdpSucc(@)]
      BY <3>2, <3>4
    <3> QED BY <3>1, <3>3, <3>4
  <2>2. rsp' \in CpdpRsps
    BY <1>5 DEF CpdpFinish
  <2>3. cpdpReq' \in CpdpReqs
    <3>1. cpdpReq' = cpdpReq \/ cpdpReq' = [cpdpReq EXCEPT !.tail = CpdpSucc(daemon.tail)]
      BY <1>5 DEF CpdpFinish
    <3> QED BY <3>1
  <2>4. UNCHANGED <<magic, executed, toolSide>>
    BY <1>5 DEF CpdpFinish
  <2> QED BY <2>1, <2>2, <2>3, <2>4 DEF toolSide
<1>6. CASE DaemonRestart
  BY <1>6 DEF DaemonRestart
<1> QED BY <1>1, <1>2, <1>3, <1>4, <1>5, <1>6 DEF Daemon

LEMMA CpdpTypedTool == ASSUME CpdpTyped, Tool \/ CpdpOpen \/ CpdpSend \/ Leave PROVE CpdpTyped'
<1> USE CpdpConstants, CpdpBoundAssumption
<1> USE DEF CpdpTyped, CpdpTools, CpdpToolPc
<1>1. CASE AttachTx \/ AttachRx
  BY <1>1 DEF AttachTx, AttachRx, daemonSide, CpdpReqs, CpdpRsps
<1>2. CASE Doorbell
  BY <1>2 DEF Doorbell, daemonSide, CpdpReqs
<1>3. CASE SeeReply
  BY <1>3 DEF SeeReply, daemonSide
<1>4. CASE CpdpTake
  <2>1. rsp.slot[CpdpSlotOf(tool.rx)] \in Optional
    BY DEF CpdpRsps
  <2>2. tool.call \in Call
    BY <1>4 DEF CpdpTake
  <2>3. UNCHANGED <<cpdpReq, rsp, calls, clean, magic, daemon, executed>>
    BY <1>4 DEF CpdpTake, daemonSide
  <2>4. CASE tool' = CpdpOff /\ UNCHANGED answers
    BY <2>3, <2>4, OffTool
  <2>5. CASE tool' # CpdpOff \/ answers' # answers
    <3>1. PICK reply : reply = rsp.slot[CpdpSlotOf(tool.rx)]
      OBVIOUS
    <3>2. reply # None /\ answers' = answers \cup {<<tool.call, reply.call>>}
          /\ tool' = [tool EXCEPT !.pc = "idle", !.rx = CpdpSucc(@)]
      BY <1>4, <2>5, <3>1 DEF CpdpTake
    <3>3. reply.call \in Call
      BY <2>1, <3>1, <3>2 DEF Optional, Message
    <3>4. answers' \subseteq Call \X Call
      BY <2>2, <3>2, <3>3
    <3>5. tool' \in CpdpTools /\ tool'.seq = tool.seq /\ tool'.pc = "idle"
      BY <3>2
    <3> QED BY <2>3, <3>4, <3>5
  <2> QED BY <2>4, <2>5
<1>5. CASE CpdpOpen \/ Leave
  <2>1. tool' \in CpdpTools /\ tool'.seq <= calls /\ tool'.pc \in {"off", "attachTx"}
    BY <1>5, OffTool DEF CpdpOpen, Leave
  <2>2. clean' \in BOOLEAN
    BY <1>5 DEF CpdpOpen, Leave
  <2>3. UNCHANGED <<cpdpReq, rsp, magic, daemon, executed, calls, answers>>
    BY <1>5 DEF CpdpOpen, Leave, daemonSide
  <2> QED BY <2>1, <2>2, <2>3
<1>6. CASE CpdpSend
  <2>1. calls' \in Call /\ tool.seq + 1 \in Call /\ tool.seq + 1 <= calls'
    <3>1. calls' = calls + 1 /\ calls < MaxCalls
      BY <1>6 DEF CpdpSend
    <3>2. tool.seq \in Nat
      OBVIOUS
    <3> QED BY <3>1, <3>2 DEF Call
  <2>2. cpdpReq' \in CpdpReqs
    <3>1. cpdpReq.slot' = [cpdpReq.slot EXCEPT ![CpdpSlotOf(tool.tx)] = [call |-> calls', seq |-> tool.seq + 1]]
      BY <1>6 DEF CpdpSend, CpdpReqs
    <3>2. cpdpReq.slot' \in [CpdpSlots -> Optional]
      BY <2>1, <3>1 DEF CpdpReqs, Optional, Message
    <3> QED BY <1>6, <3>2 DEF CpdpSend, CpdpReqs
  <2>3. tool' \in CpdpTools /\ tool'.seq = tool.seq + 1 /\ tool'.call = calls'
    <3>1. tool' = [tool EXCEPT !.pc = "doorbell", !.seq = @ + 1, !.tx = CpdpSucc(@), !.call = calls']
      BY <1>6 DEF CpdpSend
    <3>2. tool.seq + 1 \in 0 .. MaxCalls
      BY <2>1 DEF Call
    <3>3. CpdpSucc(tool.tx) \in CpdpCounter
      OBVIOUS
    <3> QED BY <2>1, <3>1, <3>2, <3>3
  <2>4. calls' \in 0 .. MaxCalls
    BY <2>1 DEF Call
  <2> QED BY <1>6, <2>1, <2>2, <2>3, <2>4 DEF CpdpSend, daemonSide
<1> QED BY <1>1, <1>2, <1>3, <1>4, <1>5, <1>6 DEF Tool

LEMMA CpdpTypedStep == ASSUME CpdpTyped, [CpdpNext]_cpdpVars PROVE CpdpTyped'
<1>1. CASE UNCHANGED cpdpVars
  BY <1>1 DEF cpdpVars, CpdpTyped
<1> QED BY <1>1, CpdpTypedDaemon, CpdpTypedTool DEF CpdpNext

(***************************************************************************)
(* The transport while the daemon stays up and every tool starts over an   *)
(* empty ring.  The daemon has served the requests before CpdpDone; at     *)
(* most one waits beyond.  The request, the copy the daemon works on and,  *)
(* once published, the reply are the waiting tool's own, and the request   *)
(* has not been carried out until the reply is written.                    *)
(***************************************************************************)
CpdpBooting == {"zeroReqHead", "zeroReqTail", "zeroRspHead", "publishMagic"}
CpdpDone == IF daemon.pc = "release" THEN CpdpSucc(daemon.tail) ELSE daemon.tail
CpdpAwaited == cpdpReq.head # CpdpDone
CpdpServed == IF daemon.pc \in {"handle", "reply"} THEN daemon.copy ELSE cpdpReq.slot[CpdpSlotOf(CpdpDone)]
CpdpOwn == [call |-> tool.call, seq |-> tool.seq]

CpdpDaemonQuiet ==
  /\ cpdpReq.tail = daemon.tail /\ rsp.head = daemon.rhead
  /\ daemon.pc \in CpdpBooting =>
       ~magic /\ cpdpReq.head = 0 /\ daemon.tail = 0 /\ daemon.rhead = 0 /\ tool.pc = "off"
  /\ daemon.pc \in {"snapshot", "handle", "reply"} => CpdpAwaited

CpdpRequestQuiet ==
  CpdpAwaited =>
    /\ cpdpReq.head = CpdpSucc(CpdpDone)
    /\ CpdpServed \in Message /\ CpdpServed.call <= calls
    /\ daemon.pc # "reply" => executed[CpdpServed.call] = 0
    /\ daemon.pc = "reply" => rsp.slot[CpdpSlotOf(daemon.rhead)] = CpdpServed

CpdpToolQuiet ==
  /\ tool.pc \in {"attachTx", "attachRx", "idle", "doorbell", "take"} => ~CpdpAwaited
  /\ tool.pc \in {"attachRx", "idle", "wait", "take"} => tool.tx = cpdpReq.head
  /\ tool.pc \in {"idle", "doorbell"} \/ (tool.pc = "wait" /\ CpdpAwaited) => rsp.head = tool.rx
  /\ tool.pc = "doorbell" =>
       /\ tool.tx = CpdpSucc(cpdpReq.head) /\ cpdpReq.slot[CpdpSlotOf(cpdpReq.head)] = CpdpOwn
       /\ tool.call <= calls /\ executed[tool.call] = 0
  /\ tool.pc = "wait" /\ CpdpAwaited => CpdpServed = CpdpOwn
  /\ tool.pc \in {"wait", "take"} /\ ~CpdpAwaited =>
       rsp.head = CpdpSucc(tool.rx) /\ rsp.slot[CpdpSlotOf(tool.rx)] = CpdpOwn

CpdpCounted ==
  /\ \A c \in Call : executed[c] <= 1 /\ (c > calls => executed[c] = 0)
  /\ AnswersMatch
CpdpQuiet == CpdpDaemonQuiet /\ CpdpRequestQuiet /\ CpdpToolQuiet /\ CpdpCounted
CpdpInv == CpdpTyped /\ (clean => CpdpQuiet)

LEMMA CpdpSuccApart ==
  ASSUME NEW c \in CpdpCounter
  PROVE  /\ CpdpSucc(c) # c /\ CpdpSucc(CpdpSucc(c)) # c
         /\ (CpdpSucc(c) - c) % CpdpW = 1 /\ (c - c) % CpdpW = 0
<1>1. c \in 0 .. CpdpW - 1 /\ CpdpW \in Nat \ {0} /\ CpdpW > 2
  BY CpdpConstants DEF CpdpCounter
<1>2. \A d \in 0 .. CpdpW - 1 : CpdpSucc(d) = IF d = CpdpW - 1 THEN 0 ELSE d + 1
  <2> SUFFICES ASSUME NEW d \in 0 .. CpdpW - 1 PROVE (d + 1) % CpdpW = IF d = CpdpW - 1 THEN 0 ELSE d + 1
    BY DEF CpdpSucc
  <2>1. CASE d = CpdpW - 1
    <3>1. (CpdpW * 1 + 0) % CpdpW = 0
      BY <1>1, ModUnique
    <3>2. d + 1 = CpdpW * 1 + 0
      BY <1>1, <2>1
    <3> QED BY <2>1, <3>1, <3>2
  <2>2. CASE d # CpdpW - 1
    <3>1. d + 1 \in 0 .. CpdpW - 1
      BY <1>1, <2>2
    <3> QED BY <1>1, <2>2, <3>1, SmallMod
  <2> QED BY <2>1, <2>2
<1>3. CpdpSucc(c) = IF c = CpdpW - 1 THEN 0 ELSE c + 1
  BY <1>1, <1>2
<1>4. CpdpSucc(c) \in 0 .. CpdpW - 1
  BY <1>1, <1>3
<1>5. CpdpSucc(CpdpSucc(c)) = IF CpdpSucc(c) = CpdpW - 1 THEN 0 ELSE CpdpSucc(c) + 1
  BY <1>2, <1>4
<1>6. (CpdpSucc(c) - c) % CpdpW = 1
  <2>1. CASE c = CpdpW - 1
    <3>1. (CpdpW * (-1) + 1) % CpdpW = 1
      <4>1. -1 \in Int /\ 1 \in 0 .. CpdpW - 1
        BY <1>1
      <4> QED BY <1>1, <4>1, ModUnique
    <3>2. CpdpSucc(c) - c = CpdpW * (-1) + 1
      BY <1>1, <1>3, <2>1
    <3> QED BY <3>1, <3>2
  <2>2. CASE c # CpdpW - 1
    <3>1. CpdpSucc(c) - c = 1 /\ 1 \in 0 .. CpdpW - 1
      BY <1>1, <1>3, <2>2
    <3> QED BY <1>1, <3>1, SmallMod
  <2> QED BY <2>1, <2>2
<1>7. c - c = 0 /\ 0 \in 0 .. CpdpW - 1
  BY <1>1
<1> QED BY <1>1, <1>3, <1>4, <1>5, <1>6, <1>7, SmallMod

LEMMA CpdpRanges ==
  ASSUME CpdpTyped
  PROVE  /\ cpdpReq.head \in CpdpCounter /\ daemon.tail \in CpdpCounter /\ daemon.rhead \in CpdpCounter
         /\ tool.tx \in CpdpCounter /\ tool.rx \in CpdpCounter /\ rsp.head \in CpdpCounter
         /\ CpdpDone \in CpdpCounter
         /\ cpdpReq.slot \in [CpdpSlots -> Optional] /\ rsp.slot \in [CpdpSlots -> Optional]
         /\ daemon.pc \in CpdpDaemonPc /\ tool.pc \in CpdpToolPc /\ daemon.copy \in Optional
  BY CpdpConstants DEF CpdpTyped, CpdpReqs, CpdpRsps, CpdpDaemons, CpdpTools, CpdpDone

LEMMA CpdpInvInit == CpdpInit => CpdpInv
<1> SUFFICES ASSUME CpdpInit PROVE CpdpQuiet
  BY CpdpTypedInit DEF CpdpInv
<1> QED BY OffTool DEF CpdpInit, CpdpQuiet, CpdpDaemonQuiet, CpdpRequestQuiet, CpdpToolQuiet, CpdpCounted, CpdpBooting,
           CpdpAwaited, CpdpDone, AnswersMatch

(* A daemon that never restarts finds nothing to zero and never resyncs.   *)
LEMMA QuietStart ==
  ASSUME CpdpTyped, CpdpQuiet, ZeroReqHead \/ ZeroReqTail \/ ZeroRspHead \/ PublishMagic \/ Resync
  PROVE  CpdpQuiet'
<1> USE DEF CpdpQuiet
<1>1. ~Resync
  <2>1. CpdpPending \in {0, 1} \/ daemon.pc # "poll"
    BY CpdpRanges, CpdpSuccApart DEF CpdpPending, CpdpRequestQuiet, CpdpAwaited, CpdpDone
  <2> QED BY <2>1, CpdpConstants DEF Resync
<1>2. daemon.pc \in CpdpBooting /\ daemon' = [daemon EXCEPT !.pc = daemon'.pc]
  BY <1>1 DEF ZeroReqHead, ZeroReqTail, ZeroRspHead, PublishMagic, CpdpBooting, CpdpTyped, CpdpDaemons
<1>3. ~magic /\ cpdpReq.head = 0 /\ cpdpReq.tail = 0 /\ rsp.head = 0 /\ daemon.tail = 0 /\ daemon.rhead = 0
      /\ tool.pc = "off"
  BY <1>2 DEF CpdpDaemonQuiet
<1>4. cpdpReq' = cpdpReq /\ rsp' = rsp
  BY <1>1, <1>3 DEF ZeroReqHead, ZeroReqTail, ZeroRspHead, PublishMagic, CpdpTyped, CpdpReqs, CpdpRsps
<1>5. UNCHANGED <<executed, tool, calls, clean, answers>>
  BY <1>1 DEF ZeroReqHead, ZeroReqTail, ZeroRspHead, PublishMagic, toolSide
<1>6. /\ daemon'.tail = daemon.tail /\ daemon'.rhead = daemon.rhead
      /\ daemon'.pc \in CpdpBooting \cup {"poll"} /\ (daemon'.pc # "poll" => magic' = magic)
  BY <1>1 DEF ZeroReqHead, ZeroReqTail, ZeroRspHead, PublishMagic, CpdpTyped, CpdpDaemons, CpdpBooting
<1>7. ~CpdpAwaited'
  BY <1>3, <1>4, <1>6 DEF CpdpAwaited, CpdpDone, CpdpBooting
<1>8. CpdpDaemonQuiet'
  BY <1>3, <1>4, <1>5, <1>6 DEF CpdpDaemonQuiet, CpdpBooting
<1>9. CpdpToolQuiet' /\ CpdpRequestQuiet'
  BY <1>3, <1>5, <1>7 DEF CpdpToolQuiet, CpdpRequestQuiet
<1> QED BY <1>5, <1>8, <1>9 DEF CpdpCounted, AnswersMatch

LEMMA QuietServe ==
  ASSUME CpdpTyped, CpdpQuiet, CpdpPoll \/ Snapshot \/ CpdpHandle
  PROVE  CpdpQuiet'
<1> USE DEF CpdpQuiet
<1>1. UNCHANGED <<magic, cpdpReq, tool, calls, clean, answers>>
  BY DEF CpdpPoll, Snapshot, CpdpHandle, toolSide
<1>2. /\ daemon'.tail = daemon.tail /\ daemon'.rhead = daemon.rhead
      /\ daemon.pc \in {"poll", "snapshot", "handle"} /\ daemon'.pc \in {"snapshot", "handle", "reply"}
  BY DEF CpdpPoll, Snapshot, CpdpHandle, CpdpTyped, CpdpDaemons
<1>3. CpdpDone = daemon.tail /\ CpdpDone' = CpdpDone /\ CpdpAwaited' = CpdpAwaited
  BY <1>1, <1>2 DEF CpdpDone, CpdpAwaited
<1>4. CpdpAwaited
  <2>1. CASE CpdpPoll
    BY <1>3, <2>1, CpdpRanges, CpdpSuccApart DEF CpdpPoll, CpdpPending, CpdpAwaited
  <2> QED BY <2>1 DEF Snapshot, CpdpHandle, CpdpDaemonQuiet
<1>5. CpdpServed' = CpdpServed
  <2>1. CASE CpdpPoll
    BY <1>1, <1>3, <2>1 DEF CpdpPoll, CpdpServed, CpdpTyped, CpdpDaemons
  <2>2. CASE Snapshot
    BY <1>1, <1>3, <2>2 DEF Snapshot, CpdpServed, CpdpTyped, CpdpDaemons
  <2>3. CASE CpdpHandle
    BY <1>1, <1>3, <2>3 DEF CpdpHandle, CpdpServed, CpdpTyped, CpdpDaemons
  <2> QED BY <2>1, <2>2, <2>3
<1>6. rsp'.head = rsp.head
  BY DEF CpdpPoll, Snapshot, CpdpHandle, CpdpTyped, CpdpRsps
<1>7. CpdpDaemonQuiet'
  BY <1>1, <1>2, <1>3, <1>4, <1>6 DEF CpdpDaemonQuiet, CpdpBooting
<1>8. CpdpServed \in Message /\ CpdpServed.call \in Call /\ executed \in [Call -> Nat]
  BY <1>4 DEF CpdpRequestQuiet, Message, CpdpTyped
<1>9. /\ CpdpHandle => executed' = [executed EXCEPT ![CpdpServed.call] = @ + 1] /\ daemon'.pc = "reply"
      /\ ~CpdpHandle => executed' = executed /\ daemon'.pc # "reply"
  <2>1. CASE CpdpHandle
    <3>1. daemon.copy = CpdpServed /\ daemon.copy # None
      BY <1>8, <2>1, CpdpNoneAssumption DEF CpdpHandle, CpdpServed
    <3>2. executed' = [c \in Call |-> IF c = CpdpServed.call THEN executed[c] + 1 ELSE executed[c]]
      BY <2>1, <3>1 DEF CpdpHandle
    <3>3. executed' = [executed EXCEPT ![CpdpServed.call] = @ + 1]
      BY <1>8, <3>2
    <3> QED BY <2>1, <3>3 DEF CpdpHandle, CpdpTyped, CpdpDaemons
  <2> QED BY <2>1 DEF CpdpPoll, Snapshot, CpdpTyped, CpdpDaemons
<1>10. daemon.pc # "reply" /\ executed[CpdpServed.call] = 0
  BY <1>2, <1>4 DEF CpdpRequestQuiet
<1>11. CpdpCounted'
  <2>1. ASSUME NEW c \in Call PROVE executed'[c] <= 1 /\ (c > calls => executed'[c] = 0)
    <3>1. CASE CpdpHandle /\ c = CpdpServed.call
      <4>1. executed'[c] = 0 + 1
        BY <1>8, <1>9, <1>10, <3>1
      <4>2. c <= calls /\ c \in Int /\ calls \in Int
        BY <1>4, <3>1 DEF CpdpRequestQuiet, CpdpTyped, Call
      <4> QED BY <4>1, <4>2
    <3>2. CASE ~(CpdpHandle /\ c = CpdpServed.call)
      BY <1>8, <1>9, <3>2 DEF CpdpCounted
    <3> QED BY <3>1, <3>2
  <2> QED BY <1>1, <2>1 DEF CpdpCounted, AnswersMatch
<1>12. CpdpRequestQuiet'
  <2>1. CpdpHandle => rsp'.slot[CpdpSlotOf(daemon.rhead)] = CpdpServed
    <3> SUFFICES ASSUME CpdpHandle PROVE rsp'.slot[CpdpSlotOf(daemon.rhead)] = CpdpServed
      OBVIOUS
    <3>1. CpdpSlotOf(daemon.rhead) \in CpdpSlots
      BY CpdpRanges, CpdpConstants
    <3>2. rsp'.slot = [rsp.slot EXCEPT ![CpdpSlotOf(daemon.rhead)] = daemon.copy]
      BY DEF CpdpHandle, CpdpTyped, CpdpRsps
    <3>3. daemon.copy = CpdpServed
      BY DEF CpdpHandle, CpdpServed
    <3> QED BY <3>1, <3>2, <3>3, CpdpRanges
  <2> QED BY <1>1, <1>2, <1>3, <1>4, <1>5, <1>8, <1>9, <1>10, <2>1 DEF CpdpRequestQuiet
<1>13. CpdpToolQuiet'
  BY <1>1, <1>3, <1>4, <1>5, <1>6 DEF CpdpToolQuiet, CpdpOwn
<1> QED BY <1>7, <1>11, <1>12, <1>13

LEMMA QuietFinish == ASSUME CpdpTyped, CpdpQuiet, CpdpFinish PROVE CpdpQuiet'
<1> USE DEF CpdpQuiet
<1>1. UNCHANGED <<magic, tool, calls, clean, answers, executed>>
  BY DEF CpdpFinish, toolSide
<1>2. CASE daemon.pc = "reply"
  <2>1. /\ daemon'.pc = "release" /\ daemon'.tail = daemon.tail /\ daemon'.rhead = CpdpSucc(daemon.rhead)
        /\ rsp'.head = CpdpSucc(daemon.rhead) /\ rsp'.slot = rsp.slot /\ cpdpReq' = cpdpReq
    BY <1>2 DEF CpdpFinish, CpdpTyped, CpdpDaemons, CpdpRsps
  <2>2. CpdpAwaited /\ CpdpDone = daemon.tail /\ cpdpReq.head = CpdpSucc(daemon.tail)
    BY <1>2 DEF CpdpDaemonQuiet, CpdpRequestQuiet, CpdpDone
  <2>3. ~CpdpAwaited'
    BY <2>1, <2>2 DEF CpdpAwaited, CpdpDone
  <2>4. CpdpDaemonQuiet'
    BY <1>1, <1>2, <2>1 DEF CpdpDaemonQuiet, CpdpBooting
  <2>5. rsp.slot[CpdpSlotOf(daemon.rhead)] = CpdpServed /\ rsp.head = daemon.rhead
    BY <1>2, <2>2 DEF CpdpRequestQuiet, CpdpDaemonQuiet
  <2>6. CpdpToolQuiet'
    BY <1>1, <2>1, <2>2, <2>3, <2>5 DEF CpdpToolQuiet, CpdpOwn
  <2>7. CpdpRequestQuiet'
    BY <2>3 DEF CpdpRequestQuiet
  <2> QED BY <1>1, <2>4, <2>6, <2>7 DEF CpdpCounted, AnswersMatch
<1>3. CASE daemon.pc = "release"
  <2>1. /\ daemon'.pc = "poll" /\ daemon'.tail = CpdpSucc(daemon.tail) /\ daemon'.rhead = daemon.rhead
        /\ cpdpReq'.head = cpdpReq.head /\ cpdpReq'.slot = cpdpReq.slot /\ cpdpReq'.tail = daemon'.tail /\ rsp' = rsp
    BY <1>3 DEF CpdpFinish, CpdpTyped, CpdpDaemons, CpdpReqs
  <2>2. CpdpDone' = CpdpDone /\ CpdpAwaited' = CpdpAwaited /\ CpdpServed' = CpdpServed
    BY <1>3, <2>1 DEF CpdpDone, CpdpAwaited, CpdpServed
  <2>3. CpdpDaemonQuiet'
    BY <1>1, <1>3, <2>1 DEF CpdpDaemonQuiet, CpdpBooting
  <2>4. CpdpRequestQuiet' /\ CpdpToolQuiet'
    BY <1>1, <1>3, <2>1, <2>2 DEF CpdpRequestQuiet, CpdpToolQuiet, CpdpOwn
  <2> QED BY <1>1, <2>3, <2>4 DEF CpdpCounted, AnswersMatch
<1> QED BY <1>2, <1>3 DEF CpdpFinish

(* The tool reads positions it does not change.                            *)
LEMMA QuietAttach ==
  ASSUME CpdpTyped, CpdpQuiet, AttachTx \/ AttachRx \/ SeeReply \/ Leave
  PROVE  CpdpQuiet'
<1> USE DEF CpdpQuiet
<1>1. UNCHANGED <<cpdpReq, rsp, daemon, magic, executed, calls, clean, answers>>
  BY DEF AttachTx, AttachRx, SeeReply, Leave, daemonSide
<1>2. CpdpAwaited' = CpdpAwaited /\ CpdpServed' = CpdpServed /\ CpdpDone' = CpdpDone
  BY <1>1 DEF CpdpAwaited, CpdpServed, CpdpDone
<1>3. CpdpRequestQuiet' /\ CpdpCounted'
  BY <1>1, <1>2 DEF CpdpRequestQuiet, CpdpCounted, AnswersMatch
<1>4. CpdpDaemonQuiet'
  BY <1>1, <1>2, OffTool DEF CpdpDaemonQuiet, AttachTx, AttachRx, SeeReply, Leave
<1>5. CpdpToolQuiet'
  <2>1. CASE AttachTx
    BY <1>1, <1>2, <2>1 DEF AttachTx, CpdpToolQuiet, CpdpTyped, CpdpTools
  <2>2. CASE AttachRx
    BY <1>1, <1>2, <2>2 DEF AttachRx, CpdpToolQuiet, CpdpTyped, CpdpTools
  <2>3. CASE SeeReply
    <3>1. tool.pc = "wait" /\ ~CpdpAwaited
      BY <2>3 DEF SeeReply, CpdpToolQuiet
    <3>2. /\ tool'.pc = "take" /\ tool'.rx = tool.rx /\ tool'.tx = tool.tx
          /\ tool'.call = tool.call /\ tool'.seq = tool.seq
      BY <2>3 DEF SeeReply, CpdpTyped, CpdpTools
    <3> QED BY <1>1, <1>2, <3>1, <3>2 DEF CpdpToolQuiet, CpdpOwn
  <2>4. CASE Leave
    BY <2>4, OffTool DEF Leave, CpdpToolQuiet
  <2> QED BY <2>1, <2>2, <2>3, <2>4
<1> QED BY <1>3, <1>4, <1>5

(* A tool that starts with head = tail finds nothing pending: three        *)
(* positions in a row are distinct.                                        *)
LEMMA QuietOpen == ASSUME CpdpTyped, CpdpQuiet, CpdpOpen, clean' PROVE CpdpQuiet'
<1> USE DEF CpdpQuiet
<1>1. UNCHANGED <<cpdpReq, rsp, daemon, magic, executed, calls, answers>> /\ tool'.pc = "attachTx"
  BY DEF CpdpOpen, CpdpOff, daemonSide
<1>2. CpdpAwaited' = CpdpAwaited /\ CpdpServed' = CpdpServed /\ CpdpDone' = CpdpDone
  BY <1>1 DEF CpdpAwaited, CpdpServed, CpdpDone
<1>3. ~CpdpAwaited
  <2>1. cpdpReq.head = daemon.tail
    BY DEF CpdpOpen, CpdpDaemonQuiet
  <2>2. daemon.tail \in CpdpCounter
    BY CpdpRanges
  <2>3. daemon.pc # "release"
    <3> SUFFICES ASSUME daemon.pc = "release" PROVE FALSE
      OBVIOUS
    <3>1. CpdpDone = CpdpSucc(daemon.tail)
      BY DEF CpdpDone
    <3> QED BY <2>1, <2>2, <3>1, CpdpSuccApart DEF CpdpRequestQuiet, CpdpAwaited
  <2> QED BY <2>1, <2>3 DEF CpdpAwaited, CpdpDone
<1>4. CpdpRequestQuiet' /\ CpdpCounted'
  BY <1>1, <1>2 DEF CpdpRequestQuiet, CpdpCounted, AnswersMatch
<1>5. CpdpDaemonQuiet'
  BY <1>1, <1>2 DEF CpdpDaemonQuiet, CpdpOpen
<1>6. CpdpToolQuiet'
  BY <1>1, <1>2, <1>3 DEF CpdpToolQuiet
<1> QED BY <1>4, <1>5, <1>6

LEMMA QuietSend == ASSUME CpdpTyped, CpdpQuiet, CpdpSend PROVE CpdpQuiet'
<1> USE DEF CpdpQuiet
<1>1. UNCHANGED <<rsp, daemon, magic, executed, clean, answers>> /\ calls' = calls + 1
  BY DEF CpdpSend, daemonSide
<1>2. /\ tool.pc = "idle" /\ tool'.pc = "doorbell" /\ tool'.tx = CpdpSucc(tool.tx) /\ tool'.rx = tool.rx
      /\ tool'.call = calls' /\ tool'.seq = tool.seq + 1
  BY DEF CpdpSend, CpdpTyped, CpdpTools
<1>3. ~CpdpAwaited /\ tool.tx = cpdpReq.head /\ rsp.head = tool.rx
  BY <1>2 DEF CpdpToolQuiet
<1>4. /\ cpdpReq'.head = cpdpReq.head /\ cpdpReq'.tail = cpdpReq.tail
      /\ cpdpReq'.slot = [cpdpReq.slot EXCEPT ![CpdpSlotOf(tool.tx)] = [call |-> calls', seq |-> tool.seq + 1]]
  BY DEF CpdpSend, CpdpTyped, CpdpReqs
<1>5. ~CpdpAwaited'
  BY <1>1, <1>3, <1>4 DEF CpdpAwaited, CpdpDone
<1>6. cpdpReq'.slot[CpdpSlotOf(cpdpReq'.head)] = CpdpOwn'
  <2>1. CpdpSlotOf(tool.tx) \in CpdpSlots /\ cpdpReq.slot \in [CpdpSlots -> Optional]
    BY CpdpRanges, CpdpConstants
  <2> QED BY <1>2, <1>3, <1>4, <2>1 DEF CpdpOwn
<1>7. calls \in Nat /\ calls' \in Call
  <2>1. calls \in 0 .. MaxCalls /\ calls < MaxCalls
    BY DEF CpdpSend, CpdpTyped
  <2> QED BY <1>1, <2>1, CpdpBoundAssumption DEF Call
<1>8. CpdpCounted'
  <2>1. ASSUME NEW c \in Call, c > calls' PROVE executed[c] = 0
    <3>1. c > calls
      BY <1>1, <1>7, <2>1 DEF Call
    <3> QED BY <3>1 DEF CpdpCounted
  <2> QED BY <1>1, <2>1 DEF CpdpCounted, AnswersMatch
<1>9. executed[calls'] = 0 /\ calls' <= calls'
  <2>1. calls' > calls
    BY <1>1, <1>7
  <2> QED BY <1>7, <2>1 DEF CpdpCounted, Call
<1>10. CpdpToolQuiet'
  BY <1>1, <1>2, <1>3, <1>4, <1>5, <1>6, <1>9 DEF CpdpToolQuiet
<1>11. CpdpDaemonQuiet'
  BY <1>1, <1>2, <1>3, <1>4 DEF CpdpDaemonQuiet
<1> QED BY <1>5, <1>8, <1>10, <1>11 DEF CpdpRequestQuiet

LEMMA QuietDoorbell == ASSUME CpdpTyped, CpdpQuiet, Doorbell PROVE CpdpQuiet'
<1> USE DEF CpdpQuiet
<1>1. UNCHANGED <<rsp, daemon, magic, executed, calls, clean, answers>>
  BY DEF Doorbell, daemonSide
<1>2. /\ tool.pc = "doorbell" /\ tool'.pc = "wait" /\ tool'.tx = tool.tx /\ tool'.rx = tool.rx
      /\ tool'.call = tool.call /\ tool'.seq = tool.seq
      /\ cpdpReq'.head = tool.tx /\ cpdpReq'.tail = cpdpReq.tail /\ cpdpReq'.slot = cpdpReq.slot
  BY DEF Doorbell, CpdpTyped, CpdpTools, CpdpReqs
<1>3. /\ cpdpReq.head = CpdpDone /\ tool.tx = CpdpSucc(CpdpDone) /\ rsp.head = tool.rx
      /\ cpdpReq.slot[CpdpSlotOf(CpdpDone)] = CpdpOwn /\ tool.call <= calls /\ executed[tool.call] = 0
  BY <1>2 DEF CpdpToolQuiet, CpdpAwaited
<1>4. CpdpDone' = CpdpDone /\ CpdpAwaited' /\ cpdpReq'.head = CpdpSucc(CpdpDone) /\ CpdpDone \in CpdpCounter
  BY <1>1, <1>2, <1>3, CpdpRanges, CpdpSuccApart DEF CpdpDone, CpdpAwaited
<1>5. daemon.pc \notin {"snapshot", "handle", "reply"}
  BY <1>3 DEF CpdpDaemonQuiet, CpdpAwaited
<1>6. CpdpServed' = CpdpOwn /\ CpdpOwn' = CpdpOwn
  BY <1>1, <1>2, <1>3, <1>4, <1>5 DEF CpdpServed, CpdpOwn
<1>7. CpdpOwn \in Message /\ CpdpOwn.call = tool.call
  <2>1. tool.call \in Call /\ tool.seq \in Call
    BY <1>2 DEF CpdpTyped
  <2> QED BY <2>1 DEF CpdpOwn, Message
<1>8. CpdpRequestQuiet'
  BY <1>1, <1>3, <1>4, <1>5, <1>6, <1>7 DEF CpdpRequestQuiet
<1>9. CpdpDaemonQuiet'
  BY <1>1, <1>2, <1>5 DEF CpdpDaemonQuiet
<1>10. CpdpToolQuiet'
  BY <1>1, <1>2, <1>3, <1>4, <1>6 DEF CpdpToolQuiet
<1> QED BY <1>1, <1>8, <1>9, <1>10 DEF CpdpCounted, AnswersMatch

(* The reply a tool takes is the reply to its own call.                    *)
LEMMA QuietTake == ASSUME CpdpTyped, CpdpQuiet, CpdpTake PROVE CpdpQuiet'
<1> USE DEF CpdpQuiet
<1>1. UNCHANGED <<cpdpReq, rsp, daemon, magic, executed, calls, clean>>
  BY DEF CpdpTake, daemonSide
<1>2. CpdpAwaited' = CpdpAwaited /\ CpdpServed' = CpdpServed /\ CpdpDone' = CpdpDone
  BY <1>1 DEF CpdpAwaited, CpdpServed, CpdpDone
<1>3. tool.pc = "take" /\ ~CpdpAwaited /\ rsp.head = CpdpSucc(tool.rx) /\ rsp.slot[CpdpSlotOf(tool.rx)] = CpdpOwn
  BY DEF CpdpTake, CpdpToolQuiet
<1>4. CASE tool' = CpdpOff /\ UNCHANGED answers
  <2>1. CpdpDaemonQuiet' /\ CpdpToolQuiet'
    BY <1>1, <1>2, <1>4, OffTool DEF CpdpDaemonQuiet, CpdpToolQuiet
  <2> QED BY <1>1, <1>2, <1>4, <2>1 DEF CpdpRequestQuiet, CpdpCounted, AnswersMatch
<1>5. CASE ~(tool' = CpdpOff /\ UNCHANGED answers)
  <2>1. answers' = answers \cup {<<tool.call, CpdpOwn.call>>} /\ tool' = [tool EXCEPT !.pc = "idle", !.rx = CpdpSucc(@)]
    BY <1>3, <1>5 DEF CpdpTake
  <2>2. AnswersMatch'
    BY <2>1 DEF CpdpCounted, AnswersMatch, CpdpOwn
  <2>3. tool'.pc = "idle" /\ tool'.rx = CpdpSucc(tool.rx) /\ tool'.tx = tool.tx
    BY <2>1 DEF CpdpTyped, CpdpTools
  <2>4. CpdpToolQuiet'
    BY <1>1, <1>2, <1>3, <2>3 DEF CpdpToolQuiet
  <2>5. CpdpDaemonQuiet'
    BY <1>1, <1>2, <1>3, <2>3 DEF CpdpDaemonQuiet
  <2> QED BY <1>1, <1>2, <2>2, <2>4, <2>5 DEF CpdpRequestQuiet, CpdpCounted
<1> QED BY <1>4, <1>5

LEMMA CpdpStep == ASSUME CpdpInv, [CpdpNext]_cpdpVars PROVE CpdpInv'
<1> SUFFICES ASSUME clean' PROVE CpdpQuiet'
  BY CpdpTypedStep DEF CpdpInv
<1>1. CASE UNCHANGED cpdpVars
  BY <1>1 DEF cpdpVars, CpdpInv, CpdpQuiet, CpdpDaemonQuiet, CpdpRequestQuiet, CpdpToolQuiet, CpdpCounted, AnswersMatch,
     CpdpAwaited, CpdpServed, CpdpDone, CpdpOwn
<1>2. CASE CpdpNext
  <2>1. ~DaemonRestart
    BY DEF DaemonRestart
  <2>2. clean
    BY <1>2, <2>1 DEF CpdpNext, Daemon, ZeroReqHead, ZeroReqTail, ZeroRspHead, PublishMagic, Resync, CpdpPoll, Snapshot,
       CpdpHandle, CpdpFinish, toolSide, CpdpOpen, Tool, AttachTx, AttachRx, Doorbell, SeeReply, CpdpTake, CpdpSend, Leave
  <2>3. CpdpTyped /\ CpdpQuiet
    BY <2>2 DEF CpdpInv
  <2>4. CASE Daemon
    BY <2>3, <2>4, QuietStart, QuietServe, QuietFinish DEF Daemon
  <2>5. CASE Tool \/ CpdpOpen \/ CpdpSend \/ Leave
    BY <2>3, <2>5, QuietAttach, QuietOpen, QuietSend, QuietDoorbell, QuietTake DEF Tool
  <2> QED BY <1>2, <2>1, <2>4, <2>5 DEF CpdpNext
<1> QED BY <1>1, <1>2

THEOREM CpdpInvariance == CpdpSpec => []CpdpInv
  BY CpdpInvInit, CpdpStep, PTL DEF CpdpSpec

(* A command is carried out at most once and answered by its own reply,    *)
(* wherever the tools end, while the daemon stays up and no tool starts    *)
(* over a pending request.                                                 *)
THEOREM CpdpTransportSafe == CpdpSpec => []CpdpSafe
<1>1. CpdpInv => CpdpSafe
  <2> SUFFICES ASSUME CpdpInv PROVE CpdpSafe
    OBVIOUS
  <2>1. CpdpTypeOK
    BY DEF CpdpInv, CpdpTyped, CpdpTypeOK, CpdpReqs, CpdpRsps, CpdpDaemons, CpdpTools, CpdpDaemonPc, CpdpToolPc, Optional
  <2> QED BY <2>1 DEF CpdpSafe, CpdpInv, CpdpQuiet, CpdpCounted, CleanExchange, CpdpAtMostOnce
<1> QED BY <1>1, CpdpInvariance, PTL

-----------------------------------------------------------------------------
(* The MP-CP packet tunnel.                                                *)

PcnPutPc == {"head", "tail", "data", "crc", "len", "advance"}
PcnEndPc == {"off", "magic", "geometry", "zero", "wait", "check", "loop"}
PcnGetPc == {"tail", "len", "first", "second", "clear", "advance"}
PcnSlotSet == [len : PcnLen, crc : 0 .. pcnSent, data : 0 .. pcnSent]
PcnProducers == [pc : PcnPutPc \cup PcnEndPc, h : PcnSlots, f : 0 .. pcnSent]
PcnConsumers == [pc : PcnGetPc \cup PcnEndPc, h : PcnSlots, t : PcnSlots, s : PcnSlotSet]

(* Nothing in the memory, in a working copy or on its way to a TAP carries *)
(* a number above that of the last frame taken.                            *)
PcnTyped ==
  /\ pcnRing \in {"h2o", "o2h"} /\ pcnSent \in PcnFrame
  /\ pcnHead \in PcnSlots /\ pcnTail \in PcnSlots /\ pcnSlot \in [PcnSlots -> PcnSlotSet]
  /\ pcnMagic \in BOOLEAN /\ pcnGeometry \in BOOLEAN /\ pcnOctUp \in BOOLEAN
  /\ pcnGeometry => pcnMagic
  /\ pcnOctUp => pcnMagic
  /\ pcnP \in PcnProducers /\ (pcnP.f # 0 <=> pcnP.pc \in PcnPutPc)
  /\ pcnC \in PcnConsumers
  /\ pcnGot \in Seq(1 .. pcnSent)
  /\ pcnRaced \in BOOLEAN
  /\ HostPc = "geometry" => pcnMagic

LEMMA PcnConstants ==
  /\ PcnN \in Nat \ {0} /\ 0 \in PcnSlots /\ PcnFrames \in Nat
  /\ \A i \in PcnSlots : i \in Int /\ PcnMask(i) = i
  /\ \A i \in PcnSlots : PcnMask(i + 1) = IF i = PcnN - 1 THEN 0 ELSE i + 1
<1>1. PcnN \in Nat \ {0} /\ PcnFrames \in Nat
  BY PcnAssumption
<1>2. \A i \in PcnSlots : i \in Int /\ PcnMask(i) = i
  BY <1>1, SmallMod DEF PcnSlots, PcnMask
<1>3. ASSUME NEW i \in PcnSlots PROVE PcnMask(i + 1) = IF i = PcnN - 1 THEN 0 ELSE i + 1
  <2>1. CASE i = PcnN - 1
    <3>1. i + 1 = PcnN * 1 + 0 /\ 1 \in Int /\ 0 \in 0 .. PcnN - 1
      BY <1>1, <2>1
    <3>2. (PcnN * 1 + 0) % PcnN = 0
      BY <1>1, <3>1, ModUnique
    <3> QED BY <2>1, <3>1, <3>2 DEF PcnMask
  <2>2. CASE i # PcnN - 1
    <3>1. i + 1 \in 0 .. PcnN - 1
      BY <1>1, <2>2 DEF PcnSlots
    <3> QED BY <1>1, <2>2, <3>1, SmallMod DEF PcnMask
  <2> QED BY <2>1, <2>2
<1> QED BY <1>1, <1>2, <1>3 DEF PcnSlots

LEMMA PcnSuccSlot == \A i \in PcnSlots : PcnMask(i + 1) \in PcnSlots /\ PcnMask(i) \in PcnSlots
  BY PcnConstants DEF PcnSlots

LEMMA PcnIdle ==
  ASSUME PcnTyped, NEW pc \in PcnEndPc
  PROVE  /\ IdleP(pc) \in PcnProducers /\ IdleP(pc).pc = pc /\ IdleP(pc).f = 0
         /\ IdleC(pc) \in PcnConsumers /\ IdleC(pc).pc = pc /\ IdleC(pc).s.data = 0
<1>1. 0 \in 0 .. pcnSent /\ 0 \in PcnSlots /\ "zero" \in PcnLen
  BY PcnConstants DEF PcnTyped, PcnFrame, PcnLen
<1>2. IdleP(pc) \in PcnProducers
  BY <1>1 DEF IdleP, PcnProducers
<1>3. PcnNoSlot \in PcnSlotSet /\ PcnNoSlot.data = 0
  BY <1>1 DEF PcnNoSlot, PcnSlotSet
<1>4. IdleC(pc) \in PcnConsumers
  BY <1>1, <1>3 DEF IdleC, PcnConsumers
<1> QED BY <1>2, <1>3, <1>4 DEF IdleP, IdleC

LEMMA PcnTypedInit == PcnInit => PcnTyped
<1> SUFFICES ASSUME PcnInit PROVE PcnTyped
  OBVIOUS
<1>1. pcnSent = 0 /\ 0 \in 0 .. pcnSent /\ 0 \in PcnSlots
  BY PcnConstants DEF PcnInit
<1>2. PcnNoSlot \in PcnSlotSet
  BY <1>1 DEF PcnNoSlot, PcnSlotSet, PcnLen
<1>3. pcnSlot \in [PcnSlots -> PcnSlotSet]
  <2>1. \A n \in PcnLen : [PcnNoSlot EXCEPT !.len = n] \in PcnSlotSet
    BY <1>2 DEF PcnSlotSet
  <2> QED BY <2>1 DEF PcnInit
<1>4. pcnP \in PcnProducers /\ pcnP.f = 0 /\ pcnP.pc = "off"
  BY <1>1 DEF PcnInit, IdleP, PcnProducers, PcnEndPc
<1>5. pcnC \in PcnConsumers /\ pcnC.pc = "off"
  BY <1>1, <1>2 DEF PcnInit, IdleC, PcnConsumers, PcnEndPc
<1>6. pcnGot \in Seq(1 .. pcnSent) /\ pcnSent \in PcnFrame
  BY <1>1, PcnConstants DEF PcnInit, PcnFrame
<1>7. HostPc = "off" /\ pcnP.pc \notin PcnPutPc
  BY <1>4, <1>5 DEF HostPc, PcnPutPc
<1> QED BY <1>1, <1>3, <1>4, <1>5, <1>6, <1>7 DEF PcnInit, PcnTyped

LEMMA PcnTypedProducing == ASSUME PcnTyped, Producing PROVE PcnTyped'
<1> USE DEF PcnTyped
<1>1. CASE PcnTap
  <2>1. pcnSent' = pcnSent + 1 /\ pcnSent' \in PcnFrame /\ pcnSent \in Nat
    BY <1>1, PcnConstants DEF PcnTap, PcnFrame
  <2>2. \A n \in 0 .. pcnSent : n \in 0 .. pcnSent'
    BY <2>1
  <2>3. PcnSlotSet \subseteq PcnSlotSet'
    BY <2>2 DEF PcnSlotSet
  <2>4. pcnSlot' \in [PcnSlots -> PcnSlotSet'] /\ pcnC' \in PcnConsumers'
    BY <1>1, <2>3 DEF PcnTap, pcnMem, PcnConsumers
  <2>5. pcnP' \in PcnProducers' /\ pcnP'.f # 0 /\ pcnP'.pc = "head"
    BY <1>1, <2>1, PcnConstants DEF PcnTap, PcnProducers, PcnPutPc
  <2>6. pcnGot' \in Seq(1 .. pcnSent')
    <3> DEFINE S == 1 .. pcnSent
               T == 1 .. pcnSent'
    <3>1. S \subseteq T
      BY <2>1
    <3>2. pcnGot \in Seq(S) /\ pcnGot' = pcnGot
      BY <1>1 DEF PcnTap
    <3> HIDE DEF S, T
    <3>3. pcnGot' \in Seq(T)
      BY <3>1, <3>2
    <3> QED BY <3>3 DEF T
  <2>7. HostPc' # "geometry" \/ HostPc' = HostPc
    BY <1>1, <2>5 DEF PcnTap, HostPc, PcnHostProduces
  <2> QED BY <1>1, <2>1, <2>4, <2>5, <2>6, <2>7 DEF PcnTap, pcnMem, pcnCount, PcnPutPc
<1>2. CASE ~PcnTap
  <2>1. UNCHANGED <<pcnRing, pcnMagic, pcnGeometry, pcnOctUp, pcnTail, pcnC, pcnSent, pcnGot, pcnRaced>>
    BY <1>2 DEF Producing, PutHead, PutTail, PutSlot, PutAdvance, pcnMem, pcnCount, pcnLog
  <2>2. pcnP' \in PcnProducers /\ (pcnP'.f # 0 <=> pcnP'.pc \in PcnPutPc) /\ pcnP'.pc # "geometry"
    <3>1. pcnP.pc \in PcnPutPc /\ pcnP.f # 0
      BY <1>2 DEF Producing, PutHead, PutTail, PutSlot, PutAdvance, PcnPutPc
    <3>2. CASE PutHead
      BY <3>1, <3>2, PcnSuccSlot DEF PutHead, PcnProducers, PcnPutPc
    <3>3. CASE PutTail \/ PutAdvance
      <4>1. CASE pcnP' = IdleP("loop")
        BY <4>1, PcnIdle DEF PcnPutPc, PcnEndPc
      <4>2. CASE pcnP' = [pcnP EXCEPT !.pc = "data"]
        BY <3>1, <4>2 DEF PcnProducers, PcnPutPc
      <4> QED BY <3>3, <4>1, <4>2 DEF PutTail, PutAdvance
    <3>4. CASE PutSlot
      <4>1. PICK pc \in {"crc", "len", "advance"} : pcnP' = [pcnP EXCEPT !.pc = pc]
        BY <3>4 DEF PutSlot
      <4> QED BY <3>1, <4>1 DEF PcnProducers, PcnPutPc
    <3> QED BY <1>2, <3>2, <3>3, <3>4 DEF Producing
  <2>3. pcnSlot' \in [PcnSlots -> PcnSlotSet]
    <3>1. CASE PutSlot
      <4>1. pcnP.h \in PcnSlots /\ pcnP.f \in 0 .. pcnSent
        BY DEF PcnProducers
      <4>2. PICK i \in PcnSlots, f \in 0 .. pcnSent :
              pcnSlot' \in {[pcnSlot EXCEPT ![i].data = f], [pcnSlot EXCEPT ![i].crc = f],
                            [pcnSlot EXCEPT ![i].len = "good"]}
        BY <3>1, <4>1 DEF PutSlot
      <4>3. pcnSlot[i] \in PcnSlotSet
        OBVIOUS
      <4>4. /\ [pcnSlot[i] EXCEPT !.data = f] \in PcnSlotSet
            /\ [pcnSlot[i] EXCEPT !.crc = f] \in PcnSlotSet
            /\ [pcnSlot[i] EXCEPT !.len = "good"] \in PcnSlotSet
        BY <4>3 DEF PcnSlotSet, PcnLen
      <4> QED BY <4>2, <4>4
    <3>2. CASE ~PutSlot
      BY <1>2, <3>2 DEF Producing, PutHead, PutTail, PutAdvance, pcnMem
    <3> QED BY <3>1, <3>2
  <2>4. pcnHead' \in PcnSlots
    <3>1. CASE PutAdvance
      <4>1. pcnP.h \in PcnSlots
        BY DEF PcnProducers
      <4> QED BY <3>1, <4>1, PcnSuccSlot DEF PutAdvance
    <3>2. CASE ~PutAdvance
      BY <1>2, <3>2 DEF Producing, PutHead, PutTail, PutSlot, pcnMem
    <3> QED BY <3>1, <3>2
  <2>5. PcnSlotSet' = PcnSlotSet /\ PcnProducers' = PcnProducers /\ PcnConsumers' = PcnConsumers
    BY <2>1 DEF PcnSlotSet, PcnProducers, PcnConsumers
  <2>6. HostPc' # "geometry" \/ HostPc' = HostPc
    BY <2>1, <2>2 DEF HostPc, PcnHostProduces
  <2> QED BY <2>1, <2>2, <2>3, <2>4, <2>5, <2>6
<1> QED BY <1>1, <1>2

(* What leaves the frames taken and the producer's frame alone.            *)
LEMMA PcnSetsKept ==
  ASSUME UNCHANGED pcnSent
  PROVE  PcnSlotSet' = PcnSlotSet /\ PcnProducers' = PcnProducers /\ PcnConsumers' = PcnConsumers
  BY DEF PcnSlotSet, PcnProducers, PcnConsumers

LEMMA PcnTypedConsuming == ASSUME PcnTyped, Consuming PROVE PcnTyped'
<1> USE DEF PcnTyped
<1>1. UNCHANGED <<pcnRing, pcnMagic, pcnGeometry, pcnOctUp, pcnHead, pcnP, pcnSent, pcnRaced>>
  BY DEF Consuming, GetHead, GetTail, GetLen, GetBody, GetClear, GetAdvance, pcnMem, pcnCount, pcnLog
<1>2. pcnC.pc \in PcnGetPc \cup PcnEndPc /\ pcnC.h \in PcnSlots /\ pcnC.t \in PcnSlots /\ pcnC.s \in PcnSlotSet
  BY DEF PcnConsumers
<1>3. pcnSlot[pcnC.t] \in PcnSlotSet
  BY <1>2
<1>4. pcnC' \in PcnConsumers /\ pcnC'.pc # "geometry"
  <2>1. CASE GetHead
    BY <2>1, PcnSuccSlot DEF GetHead, PcnConsumers, PcnGetPc
  <2>2. CASE GetTail \/ GetAdvance
    <3>1. CASE pcnC' = IdleC("loop")
      BY <3>1, PcnIdle DEF PcnEndPc
    <3>2. CASE pcnC' = [pcnC EXCEPT !.pc = "len", !.h = 0, !.t = PcnMask(pcnTail)]
      BY <3>2, PcnSuccSlot, PcnConstants DEF PcnConsumers, PcnGetPc
    <3> QED BY <2>2, <3>1, <3>2 DEF GetTail, GetAdvance
  <2>3. CASE GetLen
    <3>1. PICK pc \in {"first", "clear"} : pcnC' = [pcnC EXCEPT !.pc = pc, !.s.len = pcnSlot[pcnC.t].len]
      BY <2>3 DEF GetLen
    <3>2. [pcnC.s EXCEPT !.len = pcnSlot[pcnC.t].len] \in PcnSlotSet
      BY <1>2, <1>3 DEF PcnSlotSet
    <3> QED BY <3>1, <3>2 DEF PcnConsumers, PcnGetPc
  <2>4. CASE GetBody
    <3>1. PICK pc \in {"second", "clear"}, s \in {[pcnC.s EXCEPT !.data = pcnSlot[pcnC.t].data],
                                                  [pcnC.s EXCEPT !.crc = pcnSlot[pcnC.t].crc]} :
            pcnC' = [pcnC EXCEPT !.pc = pc, !.s = s]
      BY <2>4 DEF GetBody
    <3>2. s \in PcnSlotSet
      BY <1>2, <1>3, <3>1 DEF PcnSlotSet
    <3> QED BY <3>1, <3>2 DEF PcnConsumers, PcnGetPc
  <2>5. CASE GetClear
    BY <2>5 DEF GetClear, PcnConsumers, PcnGetPc
  <2> QED BY <2>1, <2>2, <2>3, <2>4, <2>5 DEF Consuming
<1>5. pcnSlot' \in [PcnSlots -> PcnSlotSet]
  <2>1. CASE GetClear
    <3>1. [pcnSlot[pcnC.t] EXCEPT !.len = "zero"] \in PcnSlotSet
      BY <1>3 DEF PcnSlotSet, PcnLen
    <3> QED BY <1>2, <2>1, <3>1 DEF GetClear
  <2>2. CASE ~GetClear
    BY <2>2 DEF Consuming, GetHead, GetTail, GetLen, GetBody, GetAdvance, pcnMem
  <2> QED BY <2>1, <2>2
<1>6. pcnTail' \in PcnSlots /\ pcnGot' \in Seq(1 .. pcnSent)
  <2>1. CASE GetAdvance
    <3> DEFINE S == 1 .. pcnSent
    <3>1. PcnPasses(pcnC.s) => pcnC.s.data \in S
      BY <1>2 DEF PcnPasses, PcnSlotSet, PcnFrame
    <3>2. pcnGot \in Seq(S) /\ (pcnGot' = pcnGot \/ (PcnPasses(pcnC.s) /\ pcnGot' = Append(pcnGot, pcnC.s.data)))
      BY <2>1 DEF GetAdvance
    <3> HIDE DEF S
    <3>3. pcnGot' \in Seq(S)
      BY <3>1, <3>2
    <3>4. pcnTail' \in PcnSlots
      BY <1>2, <2>1, PcnSuccSlot DEF GetAdvance
    <3> QED BY <3>3, <3>4 DEF S
  <2>2. CASE ~GetAdvance
    BY <2>2 DEF Consuming, GetHead, GetTail, GetLen, GetBody, GetClear, pcnMem, pcnLog
  <2> QED BY <2>1, <2>2
<1>7. HostPc' # "geometry" \/ HostPc' = HostPc
  BY <1>1, <1>4 DEF HostPc, PcnHostProduces
<1> QED BY <1>1, <1>4, <1>5, <1>6, <1>7, PcnSetsKept

PcnLifetime == HostInit \/ HostStart \/ OctWait \/ OctAttach \/ OctStart \/ HostDies \/ OctDies

(* Starting or losing an end makes it idle and touches no slot.            *)
LEMMA PcnEndStep ==
  ASSUME PcnTyped, PcnLifetime
  PROVE  /\ UNCHANGED <<pcnRing, pcnSlot, pcnSent, pcnGot>>
         /\ \/ \E pc \in PcnEndPc : pcnP' = IdleP(pc) /\ pcnC' = pcnC
            \/ \E pc \in PcnEndPc : pcnC' = IdleC(pc) /\ pcnP' = pcnP
         /\ pcnRaced => pcnRaced'
         /\ \/ UNCHANGED <<pcnHead, pcnTail>>
            \/ /\ pcnHead' = 0 /\ pcnTail' = 0
               /\ pcnRaced' \/ (pcnP.pc \notin PcnPutPc /\ pcnC.pc \notin PcnGetPc)
<1>1. UNCHANGED <<pcnRing, pcnSlot, pcnSent, pcnGot>>
  BY DEF PcnLifetime, HostInit, HostStart, OctWait, OctAttach, OctStart, HostDies, OctDies, pcnMem, pcnLog
<1>2. pcnRaced => pcnRaced'
  BY DEF PcnLifetime, HostInit, HostStart, OctWait, OctAttach, OctStart, HostDies, OctDies, pcnCount
<1>3. \E pc \in PcnEndPc : HostGo(pc) \/ OctGo(pc)
  <2>1. /\ HostInit => HostGo("geometry") \/ HostGo("zero") \/ HostGo("loop")
        /\ HostStart => HostGo("magic")
        /\ OctWait => OctGo("check") \/ OctGo("off")
        /\ OctAttach => OctGo("loop") \/ OctGo("off")
        /\ OctStart => OctGo("wait")
        /\ HostDies => HostGo("off")
        /\ OctDies => OctGo("off")
    BY DEF HostInit, HostStart, OctWait, OctAttach, OctStart, HostDies, OctDies
  <2> QED BY <2>1 DEF PcnLifetime, PcnEndPc
<1>4. \/ \E pc \in PcnEndPc : pcnP' = IdleP(pc) /\ pcnC' = pcnC
      \/ \E pc \in PcnEndPc : pcnC' = IdleC(pc) /\ pcnP' = pcnP
  BY <1>3 DEF HostGo, OctGo
<1>5. \/ UNCHANGED <<pcnHead, pcnTail>>
      \/ /\ pcnHead' = 0 /\ pcnTail' = 0
         /\ pcnRaced' \/ (pcnP.pc \notin PcnPutPc /\ pcnC.pc \notin PcnGetPc)
  <2>1. CASE HostInit /\ HostPc = "zero"
    <3>1. pcnHead' = 0 /\ pcnTail' = 0 /\ (pcnRaced' \/ OctPc \in {"off", "wait", "check"})
      BY <2>1 DEF HostInit
    <3> QED BY <2>1, <3>1 DEF HostPc, OctPc, PcnPutPc, PcnGetPc
  <2>2. CASE ~(HostInit /\ HostPc = "zero")
    BY <2>2 DEF PcnLifetime, HostInit, HostStart, OctWait, OctAttach, OctStart, HostDies, OctDies, pcnMem
  <2> QED BY <2>1, <2>2
<1> QED BY <1>1, <1>2, <1>4, <1>5

LEMMA PcnTypedLifetime == ASSUME PcnTyped, PcnLifetime PROVE PcnTyped'
<1> USE DEF PcnTyped
<1>1. UNCHANGED <<pcnRing, pcnSlot, pcnSent, pcnGot>> /\ pcnHead' \in PcnSlots /\ pcnTail' \in PcnSlots
  BY PcnEndStep, PcnConstants
<1>2. pcnP' \in PcnProducers /\ (pcnP'.f # 0 <=> pcnP'.pc \in PcnPutPc) /\ pcnC' \in PcnConsumers
  <2>1. \A pc \in PcnEndPc : pc \notin PcnPutPc
    BY DEF PcnEndPc, PcnPutPc
  <2> QED BY <2>1, PcnEndStep, PcnIdle
<1>3. pcnRaced' \in BOOLEAN
  BY DEF PcnLifetime, HostInit, HostStart, OctWait, OctAttach, OctStart, HostDies, OctDies, pcnCount
<1>4. /\ pcnMagic' \in BOOLEAN /\ pcnGeometry' \in BOOLEAN /\ pcnOctUp' \in BOOLEAN
      /\ pcnGeometry' => pcnMagic'
      /\ pcnOctUp' => pcnMagic'
      /\ pcnMagic => pcnMagic'
  <2>1. CASE HostInit
    <3>1. pcnMagic \in BOOLEAN /\ pcnGeometry \in BOOLEAN /\ pcnOctUp \in BOOLEAN
          /\ (pcnGeometry => pcnMagic) /\ (pcnOctUp => pcnMagic) /\ (HostPc = "geometry" => pcnMagic)
      OBVIOUS
    <3> HIDE DEF PcnTyped
    <3>2. CASE HostPc = "magic"
      BY <2>1, <3>1, <3>2 DEF HostInit
    <3>3. CASE HostPc = "geometry"
      BY <2>1, <3>1, <3>3 DEF HostInit
    <3>4. CASE HostPc = "zero"
      BY <2>1, <3>1, <3>4 DEF HostInit
    <3> QED BY <2>1, <3>2, <3>3, <3>4 DEF HostInit
  <2>2. CASE OctAttach
    BY <2>2 DEF OctAttach
  <2>3. CASE HostStart \/ OctWait \/ OctStart \/ HostDies \/ OctDies
    <3>1. UNCHANGED <<pcnMagic, pcnGeometry, pcnOctUp>>
      BY <2>3 DEF HostStart, OctWait, OctStart, HostDies, OctDies, pcnMem
    <3> QED BY <3>1
  <2> QED BY <2>1, <2>2, <2>3 DEF PcnLifetime
<1>5. HostPc' = "geometry" => pcnMagic'
  <2>1. \A pc : IdleP(pc).pc = pc /\ IdleC(pc).pc = pc
    BY DEF IdleP, IdleC
  <2>2. HostPc' = HostPc \/ HostPc' # "geometry" \/ pcnMagic'
    <3>1. CASE HostInit
      <4>1. CASE HostPc = "magic"
        BY <3>1, <4>1 DEF HostInit
      <4>2. CASE HostPc # "magic"
        BY <1>1, <2>1, <3>1, <4>2 DEF HostInit, HostGo, HostPc, PcnHostProduces
      <4> QED BY <4>1, <4>2
    <3>2. CASE HostStart \/ HostDies
      BY <1>1, <2>1, <3>2 DEF HostStart, HostDies, HostGo, HostPc, PcnHostProduces
    <3>3. CASE OctWait \/ OctAttach \/ OctStart \/ OctDies
      BY <1>1, <3>3 DEF OctWait, OctAttach, OctStart, OctDies, OctGo, HostPc, PcnHostProduces
    <3> QED BY <3>1, <3>2, <3>3 DEF PcnLifetime
  <2> QED BY <1>4, <2>2
<1> QED BY <1>1, <1>2, <1>3, <1>4, <1>5, PcnSetsKept

LEMMA PcnTypedGarble == ASSUME PcnTyped, NEW i \in PcnSlots, Garble(i) PROVE PcnTyped'
<1> USE DEF PcnTyped
<1>1. UNCHANGED <<pcnRing, pcnHead, pcnTail, pcnMagic, pcnGeometry, pcnOctUp, pcnP, pcnC, pcnSent, pcnGot, pcnRaced>>
  BY DEF Garble, pcnLog
<1>2. pcnSlot' \in [PcnSlots -> PcnSlotSet]
  <2>1. pcnSlot[i] \in PcnSlotSet /\ 0 \in 0 .. pcnSent
    BY DEF PcnFrame
  <2>2. /\ [pcnSlot[i] EXCEPT !.len = "zero"] \in PcnSlotSet
        /\ [pcnSlot[i] EXCEPT !.len = "bad"] \in PcnSlotSet
        /\ [pcnSlot[i] EXCEPT !.data = 0] \in PcnSlotSet
    BY <2>1 DEF PcnSlotSet, PcnLen
  <2> QED BY <2>2 DEF Garble
<1> QED BY <1>1, <1>2, PcnSetsKept DEF HostPc, PcnHostProduces

LEMMA PcnTypedStep == ASSUME PcnTyped, [PcnNext]_pcnVars PROVE PcnTyped'
<1>1. CASE UNCHANGED pcnVars
  BY <1>1 DEF pcnVars, pcnMem, pcnLog, pcnCount, PcnTyped, PcnSlotSet, PcnProducers, PcnConsumers, HostPc, PcnHostProduces
<1> QED BY <1>1, PcnTypedProducing, PcnTypedConsuming, PcnTypedLifetime, PcnTypedGarble DEF PcnNext, PcnLifetime

(***************************************************************************)
(* The ring until it is zeroed under a running CP.  What lies between tail *)
(* and head ascends, above everything handed over and below what comes     *)
(* next; a garbled slot has no number.  The consumer works on the tail     *)
(* slot, the producer on the head slot, and they are never the same one.   *)
(***************************************************************************)
PcnNextSlot(i) == IF i = PcnN - 1 THEN 0 ELSE i + 1
\* How far a slot is behind the tail.
PcnOff(i) == IF i >= pcnTail THEN i - pcnTail ELSE i - pcnTail + PcnN
\* The number the next frame put on the ring will have, at least.
PcnUpcoming == IF pcnP.f = 0 THEN pcnSent + 1 ELSE pcnP.f
PcnWorking == {"first", "second", "clear", "advance"}

PcnQueued ==
  \A i \in PcnSlots : PcnOff(i) < PcnOff(pcnHead) /\ pcnSlot[i].data # 0 =>
    /\ pcnSlot[i].data < PcnUpcoming
    /\ \A k \in 1 .. Len(pcnGot) : pcnGot[k] < pcnSlot[i].data
    /\ \A j \in PcnSlots : PcnOff(i) < PcnOff(j) /\ PcnOff(j) < PcnOff(pcnHead) /\ pcnSlot[j].data # 0
         => pcnSlot[i].data < pcnSlot[j].data

PcnPutting ==
  /\ pcnP.pc \in {"tail", "data", "crc", "len", "advance"} => pcnP.h = pcnHead
  /\ pcnP.pc \in {"data", "crc", "len", "advance"} => PcnNextSlot(pcnHead) # pcnTail
  /\ pcnP.pc \in {"crc", "len", "advance"} => pcnSlot[pcnHead].data \in {0, pcnP.f}

PcnTaking ==
  /\ pcnC.pc = "tail" => PcnOff(pcnC.h) <= PcnOff(pcnHead)
  /\ pcnC.pc \in {"len"} \cup PcnWorking => pcnC.t = pcnTail /\ pcnHead # pcnTail
  /\ pcnC.s.data # 0 =>
       /\ pcnC.pc \in PcnWorking
       /\ pcnC.s.data < PcnUpcoming
       /\ \A k \in 1 .. Len(pcnGot) : pcnGot[k] < pcnC.s.data
       /\ \A j \in PcnSlots : 0 < PcnOff(j) /\ PcnOff(j) < PcnOff(pcnHead) /\ pcnSlot[j].data # 0
            => pcnC.s.data < pcnSlot[j].data

PcnHanded ==
  /\ \A k \in 1 .. Len(pcnGot) : pcnGot[k] < PcnUpcoming
  /\ \A k \in 2 .. Len(pcnGot) : pcnGot[k - 1] < pcnGot[k]

PcnOrdered == PcnQueued /\ PcnPutting /\ PcnTaking /\ PcnHanded
PcnInv == PcnTyped /\ (~pcnRaced => PcnOrdered)

LEMMA PcnOffs ==
  ASSUME PcnTyped
  PROVE  /\ \A i \in PcnSlots : i \in 0 .. PcnN - 1 /\ PcnOff(i) \in 0 .. PcnN - 1 /\ PcnNextSlot(i) \in PcnSlots
         /\ \A i \in PcnSlots : PcnMask(i + 1) = PcnNextSlot(i) /\ PcnMask(i) = i
         /\ \A i, j \in PcnSlots : PcnOff(i) = PcnOff(j) => i = j
         /\ \A i \in PcnSlots : PcnNextSlot(i) # pcnTail => PcnOff(PcnNextSlot(i)) = PcnOff(i) + 1
         /\ PcnOff(pcnTail) = 0
  BY PcnConstants DEF PcnTyped, PcnSlots, PcnOff, PcnNextSlot

LEMMA PcnNumbers ==
  ASSUME PcnTyped
  PROVE  /\ pcnSent \in Nat /\ PcnUpcoming \in Nat /\ PcnUpcoming > 0 /\ PcnUpcoming <= pcnSent + 1
         /\ (pcnP.pc \notin PcnPutPc => PcnUpcoming = pcnSent + 1)
         /\ pcnP.f \in Nat /\ pcnP.f <= pcnSent /\ pcnP.h \in PcnSlots /\ pcnP.pc \in PcnPutPc \cup PcnEndPc
         /\ pcnC.s.data \in Nat /\ pcnC.h \in PcnSlots /\ pcnC.t \in PcnSlots /\ pcnC.s \in PcnSlotSet
         /\ pcnC.pc \in PcnGetPc \cup PcnEndPc
         /\ \A i \in PcnSlots : pcnSlot[i].data \in Nat /\ pcnSlot[i] \in PcnSlotSet
         /\ \A k \in 1 .. Len(pcnGot) : pcnGot[k] \in Nat
         /\ Len(pcnGot) \in Nat
<1>1. pcnSent \in Nat /\ pcnP.f \in 0 .. pcnSent /\ pcnP.h \in PcnSlots /\ pcnP.pc \in PcnPutPc \cup PcnEndPc
  BY PcnConstants DEF PcnTyped, PcnFrame, PcnProducers
<1>2. pcnC.s \in PcnSlotSet /\ pcnC.h \in PcnSlots /\ pcnC.t \in PcnSlots /\ pcnC.pc \in PcnGetPc \cup PcnEndPc
  BY DEF PcnTyped, PcnConsumers
<1>3. \A i \in PcnSlots : pcnSlot[i] \in PcnSlotSet
  BY DEF PcnTyped
<1>4. \A s \in PcnSlotSet : s.data \in Nat
  BY <1>1 DEF PcnSlotSet
<1>5. Len(pcnGot) \in Nat /\ \A k \in 1 .. Len(pcnGot) : pcnGot[k] \in Nat
  BY <1>1 DEF PcnTyped
<1>6. PcnUpcoming \in Nat /\ PcnUpcoming > 0 /\ PcnUpcoming <= pcnSent + 1 /\ (pcnP.pc \notin PcnPutPc => PcnUpcoming = pcnSent + 1)
  BY <1>1 DEF PcnUpcoming, PcnTyped
<1> QED BY <1>1, <1>2, <1>3, <1>4, <1>5, <1>6

LEMMA PcnInvInit == PcnInit => PcnInv
<1> SUFFICES ASSUME PcnInit PROVE PcnOrdered
  BY PcnTypedInit DEF PcnInv
<1>1. pcnP.pc = "off" /\ pcnP.f = 0 /\ pcnC.pc = "off" /\ pcnC.s.data = 0 /\ pcnGot = << >> /\ Len(pcnGot) = 0
  BY DEF PcnInit, IdleP, IdleC, PcnNoSlot
<1>2. \A i \in PcnSlots : pcnSlot[i].data = 0
  BY DEF PcnInit, PcnNoSlot
<1> QED BY <1>1, <1>2 DEF PcnOrdered, PcnQueued, PcnPutting, PcnTaking, PcnHanded, PcnWorking, PcnUpcoming

LEMMA OrderedEnd == ASSUME PcnTyped, PcnOrdered, PcnLifetime, ~pcnRaced' PROVE PcnOrdered'
<1> USE DEF PcnOrdered
<1>1. UNCHANGED <<pcnRing, pcnSlot, pcnSent, pcnGot>>
  BY PcnEndStep
<1>2. pcnP' = pcnP \/ (pcnP'.pc \in PcnEndPc /\ pcnP'.f = 0)
  <2>1. pcnP' = pcnP \/ \E pc \in PcnEndPc : pcnP' = IdleP(pc)
    BY PcnEndStep
  <2> QED BY <2>1, PcnIdle
<1>3. pcnC' = pcnC \/ (pcnC'.pc \in PcnEndPc /\ pcnC'.s.data = 0)
  <2>1. pcnC' = pcnC \/ \E pc \in PcnEndPc : pcnC' = IdleC(pc)
    BY PcnEndStep
  <2> QED BY <2>1, PcnIdle
<1>4. PcnUpcoming' \in Nat /\ PcnUpcoming <= PcnUpcoming'
  BY <1>1, <1>2, PcnNumbers DEF PcnUpcoming
<1>5. PcnHanded'
  <2>1. pcnGot' = pcnGot /\ PcnHanded
    BY <1>1
  <2>2. \A k \in 1 .. Len(pcnGot) : pcnGot[k] \in Nat
    BY PcnNumbers
  <2>3. PcnUpcoming \in Nat
    BY PcnNumbers
  <2>4. \A k \in 1 .. Len(pcnGot) : pcnGot[k] < PcnUpcoming'
    BY <1>4, <2>1, <2>2, <2>3 DEF PcnHanded
  <2> QED BY <2>1, <2>4 DEF PcnHanded
<1>6. CASE UNCHANGED <<pcnHead, pcnTail>>
  <2>1. \A i : PcnOff(i)' = PcnOff(i)
    BY <1>6 DEF PcnOff
  <2>2. PcnQueued'
    BY <1>1, <1>4, <1>6, <2>1, PcnNumbers DEF PcnQueued, PcnOff
  <2>3. PcnPutting'
    BY <1>1, <1>2, <1>6 DEF PcnPutting, PcnEndPc
  <2>4. PcnTaking'
    <3>1. CASE pcnC' = pcnC
      BY <1>1, <1>4, <1>6, <3>1, PcnNumbers DEF PcnTaking, PcnOff
    <3>2. CASE pcnC' # pcnC
      BY <1>3, <3>2 DEF PcnTaking, PcnEndPc, PcnWorking
    <3> QED BY <3>1, <3>2
  <2> QED BY <1>5, <2>2, <2>3, <2>4
<1>7. CASE ~UNCHANGED <<pcnHead, pcnTail>>
  <2>1. pcnHead' = 0 /\ pcnTail' = 0 /\ pcnP.pc \notin PcnPutPc /\ pcnC.pc \notin PcnGetPc
    BY <1>7, PcnEndStep
  <2>2. pcnP'.pc \notin PcnPutPc /\ pcnC'.pc \notin PcnGetPc /\ pcnC'.s.data = 0
    BY <1>2, <1>3, <2>1 DEF PcnTaking, PcnWorking, PcnGetPc, PcnEndPc, PcnPutPc
  <2>3. \A i \in PcnSlots : ~(PcnOff(i)' < PcnOff(pcnHead)')
    BY <2>1, PcnConstants DEF PcnOff, PcnSlots
  <2>4. PcnQueued'
    BY <2>3 DEF PcnQueued
  <2>5. PcnPutting' /\ PcnTaking'
    BY <2>2 DEF PcnPutting, PcnTaking, PcnPutPc, PcnGetPc, PcnWorking
  <2> QED BY <1>5, <2>4, <2>5
<1> QED BY <1>6, <1>7

(* The producer up to the step that publishes.                             *)
LEMMA OrderedPut == ASSUME PcnTyped, PcnOrdered, PcnTap \/ PutHead \/ PutTail PROVE PcnOrdered'
<1> USE DEF PcnOrdered
<1>1. UNCHANGED <<pcnRing, pcnHead, pcnTail, pcnSlot, pcnC, pcnGot>>
  BY DEF PcnTap, PutHead, PutTail, pcnMem, pcnLog
<1>2. PcnUpcoming' \in Nat /\ PcnUpcoming <= PcnUpcoming'
  <2>1. CASE PcnTap
    <3>1. pcnP.f = 0
      BY <2>1 DEF PcnTap, PcnTyped, PcnPutPc
    <3> QED BY <2>1, <3>1, PcnNumbers DEF PcnTap, PcnUpcoming
  <2>2. CASE PutHead
    BY <2>2, PcnNumbers DEF PutHead, PcnUpcoming, pcnLog, PcnTyped, PcnProducers
  <2>3. CASE PutTail
    <3>1. pcnSent' = pcnSent /\ (pcnP'.f = 0 \/ pcnP'.f = pcnP.f)
      BY <2>3 DEF PutTail, IdleP, pcnLog, PcnTyped, PcnProducers
    <3> QED BY <3>1, PcnNumbers DEF PcnUpcoming
  <2> QED BY <2>1, <2>2, <2>3
<1>3. PcnHanded' /\ PcnQueued' /\ PcnTaking'
  BY <1>1, <1>2, PcnNumbers DEF PcnHanded, PcnQueued, PcnTaking, PcnOff
<1>4. PcnPutting'
  <2>1. CASE PcnTap
    BY <2>1 DEF PcnTap, PcnPutting
  <2>2. CASE PutHead
    BY <1>1, <2>2, PcnOffs DEF PutHead, PcnPutting, PcnTyped, PcnProducers
  <2>3. CASE PutTail
    BY <1>1, <2>3, PcnOffs DEF PutTail, PcnPutting, PcnTyped, PcnProducers, IdleP
  <2> QED BY <2>1, <2>2, <2>3
<1> QED BY <1>3, <1>4

(* Slots outside the queue may change freely, slots within it may lose     *)
(* their number.                                                           *)
LEMMA OrderedSlots ==
  ASSUME PcnTyped, PcnOrdered,
         UNCHANGED <<pcnRing, pcnHead, pcnTail, pcnSent, pcnGot>>, pcnC'.s.data = pcnC.s.data, pcnP'.f = pcnP.f,
         \A i \in PcnSlots : PcnOff(i) < PcnOff(pcnHead) => pcnSlot'[i].data \in {0, pcnSlot[i].data}
  PROVE  /\ PcnQueued' /\ PcnHanded'
         /\ (pcnC'.pc = pcnC.pc \/ pcnC'.pc \in PcnWorking) /\ pcnC'.h = pcnC.h /\ pcnC'.t = pcnC.t
              /\ (pcnC'.pc \in {"len"} \cup PcnWorking => pcnC.pc \in {"len"} \cup PcnWorking) => PcnTaking'
<1> USE DEF PcnOrdered
<1>1. \A i : PcnOff(i)' = PcnOff(i)
  BY DEF PcnOff
<1>2. PcnUpcoming' = PcnUpcoming
  BY DEF PcnUpcoming
<1>3. PcnHanded'
  BY <1>2 DEF PcnHanded
<1>4. PcnQueued'
  BY <1>1, <1>2, PcnNumbers, PcnOffs DEF PcnQueued, PcnOff
<1>5. ASSUME pcnC'.pc = pcnC.pc \/ pcnC'.pc \in PcnWorking, pcnC'.h = pcnC.h, pcnC'.t = pcnC.t,
             pcnC'.pc \in {"len"} \cup PcnWorking => pcnC.pc \in {"len"} \cup PcnWorking
      PROVE  PcnTaking'
  BY <1>1, <1>2, <1>5, PcnNumbers, PcnOffs DEF PcnTaking, PcnOff, PcnWorking
<1> QED BY <1>3, <1>4, <1>5

LEMMA OrderedWrite == ASSUME PcnTyped, PcnOrdered, PutSlot PROVE PcnOrdered'
<1> USE DEF PcnOrdered
<1>1. /\ UNCHANGED <<pcnRing, pcnHead, pcnTail, pcnC, pcnSent, pcnGot>>
      /\ pcnP.pc \in {"data", "crc", "len"} /\ pcnP'.pc \in {"crc", "len", "advance"}
      /\ pcnP'.h = pcnP.h /\ pcnP'.f = pcnP.f
  BY DEF PutSlot, pcnLog, PcnTyped, PcnProducers
<1>2. pcnP.h = pcnHead /\ PcnNextSlot(pcnHead) # pcnTail /\ pcnHead \in PcnSlots
  BY <1>1 DEF PcnPutting, PcnTyped
<1>3. /\ \A i \in PcnSlots : i # pcnHead => pcnSlot'[i] = pcnSlot[i]
      /\ pcnP.pc = "data" => pcnSlot'[pcnHead].data = pcnP.f
      /\ pcnP.pc # "data" => pcnSlot'[pcnHead].data = pcnSlot[pcnHead].data
  <2>1. pcnSlot \in [PcnSlots -> PcnSlotSet] /\ pcnSlot[pcnHead] \in PcnSlotSet
    BY <1>2 DEF PcnTyped
  <2> QED BY <1>2, <2>1 DEF PutSlot, PcnSlotSet
<1>4. PcnQueued' /\ PcnHanded' /\ PcnTaking'
  <2>1. \A i \in PcnSlots : PcnOff(i) < PcnOff(pcnHead) => pcnSlot'[i].data \in {0, pcnSlot[i].data}
    BY <1>2, <1>3, PcnOffs
  <2> QED BY <1>1, <2>1, OrderedSlots
<1>5. PcnPutting'
  BY <1>1, <1>2, <1>3 DEF PcnPutting, PcnNextSlot
<1> QED BY <1>4, <1>5

LEMMA OrderedGarble ==
  ASSUME PcnTyped, PcnOrdered, NEW g \in PcnSlots, Garble(g)
  PROVE  PcnOrdered'
<1> USE DEF PcnOrdered
<1>1. UNCHANGED <<pcnRing, pcnHead, pcnTail, pcnP, pcnC, pcnSent, pcnGot>>
  BY DEF Garble, pcnLog
<1>2. \A i \in PcnSlots : pcnSlot'[i].data \in {0, pcnSlot[i].data}
  BY DEF Garble, PcnTyped, PcnSlotSet
<1>3. PcnQueued' /\ PcnHanded' /\ PcnTaking'
  BY <1>1, <1>2, OrderedSlots
<1>4. PcnPutting'
  <2>1. pcnHead \in PcnSlots
    BY DEF PcnTyped
  <2> QED BY <1>1, <1>2, <2>1 DEF PcnPutting, PcnNextSlot
<1> QED BY <1>3, <1>4

(* The frame joins the queue: above all of it and below the next.          *)
LEMMA OrderedPublish == ASSUME PcnTyped, PcnOrdered, PutAdvance PROVE PcnOrdered'
<1> USE DEF PcnOrdered
<1>1. UNCHANGED <<pcnRing, pcnTail, pcnSlot, pcnC, pcnSent, pcnGot>>
  BY DEF PutAdvance, pcnLog
<1>2. pcnP.pc = "advance" /\ pcnP'.pc = "loop" /\ pcnP'.f = 0 /\ pcnHead' = PcnMask(pcnP.h + 1)
  BY DEF PutAdvance, IdleP
<1>3. /\ pcnP.h = pcnHead /\ PcnNextSlot(pcnHead) # pcnTail /\ pcnSlot[pcnHead].data \in {0, pcnP.f}
      /\ pcnHead \in PcnSlots
  BY <1>2 DEF PcnPutting, PcnTyped
<1>4. pcnHead' = PcnNextSlot(pcnHead) /\ PcnOff(pcnHead') = PcnOff(pcnHead) + 1
  BY <1>2, <1>3, PcnOffs
<1>5. \A i : PcnOff(i)' = IF i >= pcnTail THEN i - pcnTail ELSE i - pcnTail + PcnN
  BY <1>1 DEF PcnOff
<1>6. \A i : PcnOff(i)' = PcnOff(i)
  BY <1>5 DEF PcnOff
<1>7. PcnOff(pcnHead)' = PcnOff(pcnHead) + 1
  BY <1>1, <1>4 DEF PcnOff
<1>8. pcnP.f # 0 /\ PcnUpcoming = pcnP.f /\ PcnUpcoming' = pcnSent + 1 /\ PcnUpcoming < PcnUpcoming'
  <2>1. pcnP.f # 0
    BY <1>2 DEF PcnTyped, PcnPutPc
  <2> QED BY <1>1, <1>2, <2>1, PcnNumbers DEF PcnUpcoming
<1>9. \A i \in PcnSlots : PcnOff(i) < PcnOff(pcnHead) + 1 => PcnOff(i) < PcnOff(pcnHead) \/ i = pcnHead
  <2>1. \A i \in PcnSlots : PcnOff(i) \in Int
    BY PcnOffs
  <2>2. \A i \in PcnSlots : PcnOff(i) = PcnOff(pcnHead) => i = pcnHead
    BY <1>3, PcnOffs
  <2> QED BY <1>3, <2>1, <2>2
<1>10. PcnQueued'
  <2> SUFFICES ASSUME NEW i \in PcnSlots, PcnOff(i) < PcnOff(pcnHead) + 1, pcnSlot[i].data # 0
               PROVE  /\ pcnSlot[i].data < PcnUpcoming'
                      /\ \A k \in 1 .. Len(pcnGot) : pcnGot[k] < pcnSlot[i].data
                      /\ \A j \in PcnSlots : PcnOff(i) < PcnOff(j) /\ PcnOff(j) < PcnOff(pcnHead) + 1 /\ pcnSlot[j].data # 0
                           => pcnSlot[i].data < pcnSlot[j].data
    BY <1>1, <1>6, <1>7 DEF PcnQueued
  <2>1. CASE i = pcnHead
    <3>1. pcnSlot[i].data = PcnUpcoming
      BY <1>3, <1>8, <2>1
    <3>2. \A j \in PcnSlots : ~(PcnOff(i) < PcnOff(j) /\ PcnOff(j) < PcnOff(pcnHead) + 1)
      BY <2>1, PcnOffs
    <3> QED BY <1>8, <3>1, <3>2 DEF PcnHanded
  <2>2. CASE PcnOff(i) < PcnOff(pcnHead)
    <3>1. pcnSlot[i].data < PcnUpcoming
      BY <2>2 DEF PcnQueued
    <3>2. pcnSlot[i].data \in Nat /\ PcnUpcoming \in Nat /\ PcnUpcoming' \in Nat
      BY <1>8, PcnNumbers
    <3>3. ASSUME NEW j \in PcnSlots, PcnOff(i) < PcnOff(j), PcnOff(j) < PcnOff(pcnHead) + 1, pcnSlot[j].data # 0
          PROVE  pcnSlot[i].data < pcnSlot[j].data
      <4>1. CASE j = pcnHead
        BY <1>3, <1>8, <3>1, <3>3, <4>1
      <4>2. CASE PcnOff(j) < PcnOff(pcnHead)
        BY <2>2, <3>3, <4>2 DEF PcnQueued
      <4> QED BY <1>9, <3>3, <4>1, <4>2
    <3> QED BY <1>8, <2>2, <3>1, <3>2, <3>3 DEF PcnQueued
  <2> QED BY <1>9, <2>1, <2>2
<1>11. PcnTaking'
  <2>1. pcnC.pc = "tail" => PcnOff(pcnC.h) <= PcnOff(pcnHead) + 1
    <3>1. PcnOff(pcnC.h) \in Int /\ PcnOff(pcnHead) \in Int
      <4>1. pcnC.h \in PcnSlots
        BY PcnNumbers
      <4>2. \A i \in PcnSlots : PcnOff(i) \in 0 .. PcnN - 1
        BY PcnOffs
      <4> QED BY <1>3, <4>1, <4>2
    <3>2. pcnC.pc = "tail" => PcnOff(pcnC.h) <= PcnOff(pcnHead)
      BY DEF PcnTaking
    <3> QED BY <3>1, <3>2
  <2>2. pcnHead' # pcnTail
    BY <1>3, <1>4
  <2>3. ASSUME pcnC.s.data # 0, NEW j \in PcnSlots, 0 < PcnOff(j), PcnOff(j) < PcnOff(pcnHead) + 1, pcnSlot[j].data # 0
        PROVE  pcnC.s.data < pcnSlot[j].data
    <3>1. CASE j = pcnHead
      BY <1>3, <1>8, <2>3, <3>1 DEF PcnTaking
    <3>2. CASE PcnOff(j) < PcnOff(pcnHead)
      BY <2>3, <3>2 DEF PcnTaking
    <3> QED BY <1>9, <2>3, <3>1, <3>2
  <2>4. pcnC.s.data # 0 => pcnC.s.data < PcnUpcoming'
    BY <1>8, PcnNumbers DEF PcnTaking
  <2> QED BY <1>1, <1>6, <1>7, <2>1, <2>2, <2>3, <2>4 DEF PcnTaking
<1>12. PcnHanded'
  BY <1>1, <1>8, PcnNumbers DEF PcnHanded
<1>13. PcnPutting'
  BY <1>2 DEF PcnPutting
<1> QED BY <1>10, <1>11, <1>12, <1>13

(* The consumer up to the step that hands over.                            *)
LEMMA OrderedGet == ASSUME PcnTyped, PcnOrdered, GetHead \/ GetTail PROVE PcnOrdered'
<1> USE DEF PcnOrdered
<1>1. UNCHANGED <<pcnRing, pcnHead, pcnTail, pcnSlot, pcnP, pcnSent, pcnGot>>
  BY DEF GetHead, GetTail, pcnMem, pcnLog
<1>2. pcnC.s.data = 0 /\ pcnC'.s.data = 0
  <2>1. pcnC.s.data = 0
    BY DEF GetHead, GetTail, PcnTaking, PcnWorking
  <2> QED BY <2>1, PcnIdle DEF GetHead, GetTail, PcnTyped, PcnConsumers, PcnEndPc
<1>3. PcnQueued' /\ PcnPutting' /\ PcnHanded'
  BY <1>1 DEF PcnQueued, PcnPutting, PcnHanded, PcnOff, PcnUpcoming, PcnNextSlot
<1>4. PcnTaking'
  <2>1. CASE GetHead
    <3>1. pcnC'.pc = "tail" /\ pcnC'.h = pcnHead
      BY <2>1, PcnOffs DEF GetHead, PcnTyped, PcnConsumers
    <3>2. PcnOff(pcnC.h)' = PcnOff(pcnHead) /\ PcnOff(pcnHead)' = PcnOff(pcnHead) /\ PcnOff(pcnHead) \in Int
      BY <1>1, <3>1, PcnOffs DEF PcnOff, PcnTyped
    <3> QED BY <1>2, <3>1, <3>2 DEF PcnTaking, PcnWorking
  <2>2. CASE GetTail
    <3>1. CASE pcnC.h = pcnTail
      <4>1. pcnC'.pc = "loop"
        BY <2>2, <3>1, PcnOffs DEF GetTail, PcnTyped, IdleC
      <4> QED BY <1>2, <4>1 DEF PcnTaking, PcnWorking
    <3>2. CASE pcnC.h # pcnTail
      <4>1. pcnC'.pc = "len" /\ pcnC'.t = pcnTail
        BY <2>2, <3>2, PcnOffs DEF GetTail, PcnTyped, PcnConsumers
      <4>2. PcnOff(pcnC.h) <= PcnOff(pcnHead) /\ PcnOff(pcnC.h) # 0 /\ pcnC.h \in PcnSlots
        BY <2>2, <3>2, PcnOffs, PcnNumbers DEF GetTail, PcnTaking, PcnTyped
      <4>3. pcnHead # pcnTail
        BY <4>2, PcnOffs
      <4> QED BY <1>1, <1>2, <4>1, <4>3 DEF PcnTaking, PcnWorking
    <3> QED BY <3>1, <3>2
  <2> QED BY <2>1, <2>2
<1> QED BY <1>3, <1>4

LEMMA OrderedRead == ASSUME PcnTyped, PcnOrdered, GetLen \/ GetBody \/ GetClear PROVE PcnOrdered'
<1> USE DEF PcnOrdered
<1>1. UNCHANGED <<pcnRing, pcnHead, pcnTail, pcnP, pcnSent, pcnGot>>
  BY DEF GetLen, GetBody, GetClear, pcnMem, pcnLog
<1>2. /\ pcnC.pc \in {"len"} \cup PcnWorking /\ pcnC'.pc \in PcnWorking
      /\ pcnC'.t = pcnC.t /\ pcnC'.h = pcnC.h
  BY DEF GetLen, GetBody, GetClear, PcnWorking, PcnTyped, PcnConsumers
<1>3. pcnC.t = pcnTail /\ pcnHead # pcnTail /\ pcnTail \in PcnSlots /\ pcnHead \in PcnSlots
  BY <1>2 DEF PcnTaking, PcnTyped
<1>4. \A i \in PcnSlots : pcnSlot'[i].data = pcnSlot[i].data
  <2>1. pcnSlot \in [PcnSlots -> PcnSlotSet] /\ pcnSlot[pcnTail] \in PcnSlotSet
    BY <1>3 DEF PcnTyped
  <2> QED BY <1>3, <2>1 DEF GetLen, GetBody, GetClear, pcnMem, PcnSlotSet
<1>5. PcnPutting'
  <2>1. pcnHead \in PcnSlots
    BY DEF PcnTyped
  <2> QED BY <1>1, <1>4, <2>1 DEF PcnPutting, PcnNextSlot
<1>6. CASE pcnC'.s.data = pcnC.s.data
  BY <1>1, <1>2, <1>4, <1>5, <1>6, OrderedSlots
<1>7. CASE pcnC'.s.data # pcnC.s.data
  <2>1. GetBody /\ pcnC'.s.data = pcnSlot[pcnTail].data /\ pcnSlot' = pcnSlot
    <3>1. pcnC \in PcnConsumers /\ pcnC.s \in PcnSlotSet
      BY PcnNumbers DEF PcnTyped
    <3>2. CASE GetLen
      <4>1. pcnC'.s = [pcnC.s EXCEPT !.len = pcnSlot[pcnC.t].len]
        BY <3>1, <3>2 DEF GetLen, PcnConsumers
      <4>2. pcnC'.s.data = pcnC.s.data
        BY <3>1, <4>1 DEF PcnSlotSet
      <4> QED BY <1>7, <4>2
    <3>3. CASE GetBody
      <4>1. \/ pcnC'.s = [pcnC.s EXCEPT !.data = pcnSlot[pcnC.t].data]
            \/ pcnC'.s = [pcnC.s EXCEPT !.crc = pcnSlot[pcnC.t].crc]
        BY <3>1, <3>3 DEF GetBody, PcnConsumers
      <4>2. pcnC'.s.data = pcnSlot[pcnC.t].data
        BY <1>7, <3>1, <4>1 DEF PcnSlotSet
      <4> QED BY <1>3, <3>3, <4>2 DEF GetBody, pcnMem
    <3>4. CASE GetClear
      BY <1>7, <3>1, <3>4 DEF GetClear, PcnConsumers
    <3> QED BY <3>2, <3>3, <3>4
  <2>2. 0 < PcnOff(pcnHead) /\ PcnOff(pcnTail) = 0
    <3>1. PcnOff(pcnHead) # 0 /\ PcnOff(pcnHead) \in 0 .. PcnN - 1
      BY <1>3, PcnOffs
    <3> QED BY <3>1, PcnOffs, PcnConstants
  <2>3. /\ \A i : PcnOff(i)' = PcnOff(i)
        /\ PcnUpcoming' = PcnUpcoming
    BY <1>1 DEF PcnOff, PcnUpcoming
  <2>4. PcnQueued' /\ PcnHanded'
    BY <1>1, <2>1, <2>3 DEF PcnQueued, PcnHanded, PcnOff
  <2>5. PcnOff(pcnHead)' = PcnOff(pcnHead)
    BY <1>1 DEF PcnOff
  <2>6. pcnC'.s.data # 0 =>
          /\ pcnC'.s.data < PcnUpcoming
          /\ \A k \in 1 .. Len(pcnGot) : pcnGot[k] < pcnC'.s.data
          /\ \A j \in PcnSlots : 0 < PcnOff(j) /\ PcnOff(j) < PcnOff(pcnHead) /\ pcnSlot[j].data # 0
               => pcnC'.s.data < pcnSlot[j].data
    BY <1>3, <2>1, <2>2 DEF PcnQueued
  <2>7. PcnTaking'
    BY <1>1, <1>2, <1>3, <2>1, <2>3, <2>5, <2>6 DEF PcnTaking, PcnWorking
  <2> QED BY <1>5, <2>4, <2>7
<1> QED BY <1>6, <1>7

(* The frame leaves the queue: below all that stays.                       *)
LEMMA OrderedHandOver == ASSUME PcnTyped, PcnOrdered, GetAdvance PROVE PcnOrdered'
<1> USE DEF PcnOrdered
<1>1. UNCHANGED <<pcnRing, pcnHead, pcnSlot, pcnP, pcnSent>>
  BY DEF GetAdvance
<1>2. /\ pcnC.pc = "advance" /\ pcnC'.pc = "loop" /\ pcnC'.s.data = 0 /\ pcnTail' = PcnMask(pcnC.t + 1)
      /\ pcnGot' = pcnGot \/ (pcnC.s.data # 0 /\ pcnGot' = Append(pcnGot, pcnC.s.data))
  BY DEF GetAdvance, IdleC, PcnNoSlot, PcnPasses
<1>3. pcnC.t = pcnTail /\ pcnHead # pcnTail /\ pcnHead \in PcnSlots /\ pcnTail \in PcnSlots
  BY <1>2 DEF PcnTaking, PcnWorking, PcnTyped
<1>4. pcnTail' = PcnNextSlot(pcnTail)
  BY <1>2, <1>3, PcnOffs
<1>5. \A i \in PcnSlots : PcnOff(i)' = IF i = pcnTail THEN PcnN - 1 ELSE PcnOff(i) - 1
  <2>1. \A i \in PcnSlots : i \in 0 .. PcnN - 1
    BY DEF PcnSlots
  <2>2. pcnTail' = IF pcnTail = PcnN - 1 THEN 0 ELSE pcnTail + 1
    BY <1>4 DEF PcnNextSlot
  <2> QED BY <1>3, <2>1, <2>2, PcnConstants DEF PcnOff
<1>6. PcnOff(pcnHead)' = PcnOff(pcnHead) - 1
  BY <1>1, <1>3, <1>5
<1>7. /\ Len(pcnGot') \in Nat
      /\ \A k \in 1 .. Len(pcnGot') : IF k \in 1 .. Len(pcnGot) THEN pcnGot'[k] = pcnGot[k]
                                      ELSE k = Len(pcnGot) + 1 /\ pcnC.s.data # 0 /\ pcnGot'[k] = pcnC.s.data
  <2>1. pcnGot \in Seq(1 .. pcnSent)
    BY DEF PcnTyped
  <2>2. Len(pcnGot) \in Nat
    BY <2>1
  <2>3. PICK d : d = pcnC.s.data
    OBVIOUS
  <2>4. CASE pcnGot' = pcnGot
    BY <2>2, <2>4
  <2>5. CASE d # 0 /\ pcnGot' = Append(pcnGot, d)
    BY <2>1, <2>2, <2>3, <2>5
  <2> QED BY <1>2, <2>3, <2>4, <2>5
<1>8. PcnUpcoming' = PcnUpcoming
  BY <1>1 DEF PcnUpcoming
<1>9. pcnC.s.data # 0 =>
        /\ pcnC.s.data < PcnUpcoming
        /\ \A k \in 1 .. Len(pcnGot) : pcnGot[k] < pcnC.s.data
        /\ \A j \in PcnSlots : 0 < PcnOff(j) /\ PcnOff(j) < PcnOff(pcnHead) /\ pcnSlot[j].data # 0
             => pcnC.s.data < pcnSlot[j].data
  BY DEF PcnTaking
<1>10. \A i \in PcnSlots : PcnOff(i)' < PcnOff(pcnHead)' => i # pcnTail /\ 0 < PcnOff(i) /\ PcnOff(i) < PcnOff(pcnHead)
  <2> SUFFICES ASSUME NEW i \in PcnSlots, PcnOff(i)' < PcnOff(pcnHead)'
               PROVE  i # pcnTail /\ 0 < PcnOff(i) /\ PcnOff(i) < PcnOff(pcnHead)
    OBVIOUS
  <2>1. PcnOff(i) \in 0 .. PcnN - 1 /\ PcnOff(pcnHead) \in 0 .. PcnN - 1
    BY <1>3, PcnOffs
  <2>2. i # pcnTail
    BY <1>5, <1>6, <2>1, PcnConstants
  <2>3. PcnOff(i) # 0
    BY <1>3, <2>2, PcnOffs
  <2> QED BY <1>5, <1>6, <2>1, <2>2, <2>3, PcnConstants
<1>11. PcnQueued'
  <2> SUFFICES ASSUME NEW i \in PcnSlots, PcnOff(i)' < PcnOff(pcnHead)', pcnSlot[i].data # 0
               PROVE  /\ pcnSlot[i].data < PcnUpcoming
                      /\ \A k \in 1 .. Len(pcnGot') : pcnGot'[k] < pcnSlot[i].data
                      /\ \A j \in PcnSlots : PcnOff(i)' < PcnOff(j)' /\ PcnOff(j)' < PcnOff(pcnHead)' /\ pcnSlot[j].data # 0
                           => pcnSlot[i].data < pcnSlot[j].data
    BY <1>1, <1>8 DEF PcnQueued
  <2>1. i # pcnTail /\ 0 < PcnOff(i) /\ PcnOff(i) < PcnOff(pcnHead)
    BY <1>10
  <2>2. \A k \in 1 .. Len(pcnGot') : pcnGot'[k] < pcnSlot[i].data
    BY <1>7, <1>9, <2>1 DEF PcnQueued
  <2>3. ASSUME NEW j \in PcnSlots, PcnOff(i)' < PcnOff(j)', PcnOff(j)' < PcnOff(pcnHead)', pcnSlot[j].data # 0
        PROVE  pcnSlot[i].data < pcnSlot[j].data
    <3>1. j # pcnTail /\ PcnOff(j) < PcnOff(pcnHead)
      BY <1>10, <2>3
    <3>2. PcnOff(i) < PcnOff(j)
      BY <1>5, <2>1, <2>3, <3>1, PcnOffs
    <3> QED BY <2>1, <2>3, <3>1, <3>2 DEF PcnQueued
  <2> QED BY <2>1, <2>2, <2>3 DEF PcnQueued
<1>12. PcnHanded'
  <2>1. \A k \in 1 .. Len(pcnGot') : pcnGot'[k] < PcnUpcoming
    BY <1>7, <1>9 DEF PcnHanded
  <2>2. ASSUME NEW k \in 2 .. Len(pcnGot') PROVE pcnGot'[k - 1] < pcnGot'[k]
    <3>1. k \in 1 .. Len(pcnGot') /\ k - 1 \in 1 .. Len(pcnGot') /\ Len(pcnGot) \in Nat
      BY <1>7, PcnNumbers
    <3>2. k - 1 \in 1 .. Len(pcnGot)
      BY <1>7, <3>1
    <3>3. CASE k \in 1 .. Len(pcnGot)
      <4>1. k \in 2 .. Len(pcnGot)
        BY <3>2, <3>3
      <4> QED BY <1>7, <3>1, <3>2, <3>3, <4>1 DEF PcnHanded
    <3>4. CASE k \notin 1 .. Len(pcnGot)
      <4>1. pcnGot'[k] = pcnC.s.data /\ pcnC.s.data # 0 /\ pcnGot'[k - 1] = pcnGot[k - 1]
        BY <1>7, <3>1, <3>2, <3>4
      <4> QED BY <1>9, <3>2, <4>1
    <3> QED BY <3>3, <3>4
  <2> QED BY <1>8, <2>1, <2>2 DEF PcnHanded
<1>13. PcnTaking'
  BY <1>2 DEF PcnTaking, PcnWorking
<1>14. PcnPutting'
  <2>1. ASSUME PcnNextSlot(pcnHead) # pcnTail PROVE PcnNextSlot(pcnHead) # pcnTail'
    BY <1>3, <1>4, PcnConstants DEF PcnNextSlot, PcnSlots
  <2> QED BY <1>1, <2>1 DEF PcnPutting, PcnNextSlot
<1> QED BY <1>11, <1>12, <1>13, <1>14

LEMMA PcnStep == ASSUME PcnInv, [PcnNext]_pcnVars PROVE PcnInv'
<1> SUFFICES ASSUME ~pcnRaced' PROVE PcnOrdered'
  BY PcnTypedStep DEF PcnInv
<1>1. CASE UNCHANGED pcnVars
  BY <1>1 DEF pcnVars, pcnMem, pcnLog, pcnCount, PcnInv, PcnOrdered, PcnQueued, PcnPutting, PcnTaking, PcnHanded,
     PcnOff, PcnUpcoming, PcnNextSlot
<1>2. CASE PcnNext
  <2>1. ~pcnRaced
    <3>1. CASE PcnLifetime
      BY <3>1, PcnEndStep DEF PcnInv
    <3>2. CASE ~PcnLifetime
      BY <1>2, <3>2 DEF PcnNext, PcnLifetime, Producing, PcnTap, PutHead, PutTail, PutSlot, PutAdvance,
         Consuming, GetHead, GetTail, GetLen, GetBody, GetClear, GetAdvance, Garble, pcnCount
    <3> QED BY <3>1, <3>2
  <2>2. PcnTyped /\ PcnOrdered
    BY <2>1 DEF PcnInv
  <2>3. CASE Producing
    BY <2>2, <2>3, OrderedPut, OrderedWrite, OrderedPublish DEF Producing
  <2>4. CASE Consuming
    BY <2>2, <2>4, OrderedGet, OrderedRead, OrderedHandOver DEF Consuming
  <2>5. CASE PcnLifetime
    BY <2>2, <2>5, OrderedEnd
  <2>6. CASE \E i \in PcnSlots : Garble(i)
    BY <2>2, <2>6, OrderedGarble
  <2> QED BY <1>2, <2>3, <2>4, <2>5, <2>6 DEF PcnNext, PcnLifetime
<1> QED BY <1>1, <1>2

THEOREM PcnInvariance == PcnSpec => []PcnInv
  BY PcnInvInit, PcnStep, PTL DEF PcnSpec

(* What comes out of the MP-CP ring went into it, once and in order,       *)
(* through the death of either end and garbled slots, until the MP zeroes  *)
(* the ring under a CP at work.                                            *)
THEOREM PcnetRingSafe == PcnSpec => []PcnSafe
<1>1. PcnInv => PcnSafe
  <2> SUFFICES ASSUME PcnInv PROVE PcnSafe
    OBVIOUS
  <2>1. \A n \in 0 .. pcnSent : n \in PcnFrame
    BY PcnConstants DEF PcnInv, PcnTyped, PcnFrame
  <2>2. PcnTypeOK
    BY <2>1, PcnNumbers DEF PcnInv, PcnTyped, PcnTypeOK, PcnSlotSet
  <2>3. PcnIntact
    <3> DEFINE S == 1 .. pcnSent
    <3>1. pcnGot \in Seq(S)
      BY DEF PcnInv, PcnTyped
    <3> HIDE DEF S
    <3>2. \A k \in 1 .. Len(pcnGot) : pcnGot[k] \in S
      BY <3>1
    <3> QED BY <3>2 DEF S, PcnIntact
  <2> QED BY <2>2, <2>3 DEF PcnSafe, PcnInOrder, PcnInv, PcnOrdered, PcnHanded
<1> QED BY <1>1, PcnInvariance, PTL

-----------------------------------------------------------------------------
\* ---- DpTrunk: the blocks of the data plane's trunk driver ----

TrunkBoxes(item) == item.chain \cup {item.wqe}
TrunkItems == [wqe : TrunkBlock \cup {0}, chain : SUBSET TrunkBlock]
TrunkPcs == {"idle", "batch", "hold", "service", "fault"}
TrunkHolds(g) == thread[g].pc = "hold"

TrunkShape ==
  /\ prep \subseteq TrunkSteps /\ mem \in {"none", "held", "publishing", "published"} /\ dmaError \in BOOLEAN
  /\ where \in [TrunkBlock -> {"pool", "sso", "rx", "tx", "lost"}]
  /\ done \subseteq TrunkBlock /\ old \subseteq TrunkBlock
  /\ work \subseteq [grp : TrunkGroup, item : TrunkItems]
  /\ thread \in [TrunkGroup -> [pc : TrunkPcs, item : TrunkItems, n : Nat]]
  /\ dev \in {"down", "opening", "up", "fenced", "draining", "closing"}
  /\ running \in BOOLEAN /\ accepting \in BOOLEAN /\ dqOpen \in BOOLEAN
  /\ error \in BOOLEAN /\ pki \in BOOLEAN /\ queue \in BOOLEAN

\* Every block is in one place: a queued descriptor, a thread's hand, or
\* neither, and no two descriptors or hands share one.
TrunkPlaces ==
  /\ \A b \in done \cup old : where[b] = "tx"
  /\ \A w \in work : TrunkBoxes(w.item) \subseteq TrunkBlock /\ \A b \in TrunkBoxes(w.item) : where[b] = "sso"
  /\ \A v, w \in work : v # w => TrunkBoxes(v.item) \cap TrunkBoxes(w.item) = {}
  /\ \A g \in TrunkGroup : TrunkHolds(g) =>
       TrunkBoxes(thread[g].item) \subseteq TrunkBlock /\ \A b \in TrunkBoxes(thread[g].item) : where[b] = "rx"
  /\ \A g, h \in TrunkGroup : g # h /\ TrunkHolds(g) /\ TrunkHolds(h) =>
       TrunkBoxes(thread[g].item) \cap TrunkBoxes(thread[h].item) = {}

\* The device: transmits are taken only while it is up, the descriptor queues
\* are open until it has drained.
TrunkPhases ==
  /\ accepting => dev = "up"
  /\ dev # "down" => dqOpen
  /\ dev = "closing" \/ ~dqOpen => TrunkPending = {}

TrunkInv == TrunkShape /\ TrunkPlaces /\ TrunkPhases /\ ~freedTwice

\* A thread that goes on, and the others where they were.
LEMMA TrunkGoes ==
  ASSUME TrunkShape, NEW g \in TrunkGroup, NEW pc \in TrunkPcs, NEW item \in TrunkItems, TrunkGoto(g, pc, item)
  PROVE  /\ thread' \in [TrunkGroup -> [pc : TrunkPcs, item : TrunkItems, n : Nat]]
         /\ thread'[g].pc = pc /\ thread'[g].item = item
         /\ \A h \in TrunkGroup : h # g => thread'[h] = thread[h]
<1> DEFINE n == CASE pc = "batch" -> thread[g].n + 1 [] pc = "hold" -> thread[g].n [] OTHER -> 0
           t == [thread[g] EXCEPT !.pc = pc, !.item = item, !.n = n]
<1>1. thread \in [TrunkGroup -> [pc : TrunkPcs, item : TrunkItems, n : Nat]]
  BY DEF TrunkShape
<1>2. thread[g].n \in Nat
  BY <1>1
<1>3. n \in Nat
  BY <1>2
<1>4. thread' = [thread EXCEPT ![g] = t]
  BY <1>1 DEF TrunkGoto
<1> HIDE DEF n
<1>5. t \in [pc : TrunkPcs, item : TrunkItems, n : Nat] /\ t.pc = pc /\ t.item = item
  BY <1>1, <1>3
<1> HIDE DEF t
<1> QED BY <1>1, <1>4, <1>5

\* A step that takes no block from a descriptor or a hand.
LEMMA TrunkPlacesKept ==
  ASSUME TrunkInv, UNCHANGED work,
         \A g \in TrunkGroup : TrunkHolds(g)' => TrunkHolds(g) /\ thread'[g].item = thread[g].item,
         \A b \in TrunkBlock : where[b] \in {"sso", "rx"} => where'[b] = where[b],
         \A b \in done' \cup old' : where'[b] = "tx"
  PROVE  TrunkPlaces'
<1>0. TrunkPlaces
  BY DEF TrunkInv
<1>1. \A w \in work : TrunkBoxes(w.item) \subseteq TrunkBlock /\ \A b \in TrunkBoxes(w.item) : where'[b] = "sso"
  BY <1>0 DEF TrunkPlaces
<1>2. \A g \in TrunkGroup : TrunkHolds(g)' =>
        TrunkBoxes(thread'[g].item) \subseteq TrunkBlock /\ \A b \in TrunkBoxes(thread'[g].item) : where'[b] = "rx"
  BY <1>0 DEF TrunkPlaces
<1>3. \A g, h \in TrunkGroup : g # h /\ TrunkHolds(g)' /\ TrunkHolds(h)' =>
        TrunkBoxes(thread'[g].item) \cap TrunkBoxes(thread'[h].item) = {}
  BY <1>0 DEF TrunkPlaces
<1>4. \A v, w \in work : v # w => TrunkBoxes(v.item) \cap TrunkBoxes(w.item) = {}
  BY <1>0 DEF TrunkPlaces
<1> QED BY <1>1, <1>2, <1>3, <1>4 DEF TrunkPlaces, TrunkBoxes, TrunkHolds

\* Reaping gives back what has completed, once, and nothing else.
LEMMA TrunkReaps ==
  ASSUME TrunkInv, NEW bs \in SUBSET TrunkBlock, \A b \in bs : where[b] = "pool", TrunkReap(bs)
  PROVE  /\ where' \in [TrunkBlock -> {"pool", "sso", "rx", "tx", "lost"}]
         /\ done' \subseteq TrunkBlock /\ old' \subseteq TrunkBlock /\ ~freedTwice'
         /\ \A b \in TrunkBlock : where[b] \in {"sso", "rx"} => where'[b] = where[b]
         /\ \A b \in done' \cup old' : where'[b] = "tx"
         /\ TrunkPending' = (TrunkPending \ Reaped) \cup bs
<1>1. where \in [TrunkBlock -> {"pool", "sso", "rx", "tx", "lost"}] /\ done \subseteq TrunkBlock /\ old \subseteq TrunkBlock
      /\ (\A b \in done \cup old : where[b] = "tx") /\ ~freedTwice
  BY DEF TrunkInv, TrunkShape, TrunkPlaces
<1>2. \A b \in TrunkBlock : where'[b] = IF b \in bs THEN "tx" ELSE IF b \in Reaped THEN "pool" ELSE where[b]
  BY DEF TrunkReap, TrunkFree
<1>3. \A b \in Reaped : where[b] = "tx" /\ b \in TrunkBlock
  BY DEF Reaped, TrunkPending
<1>4. where' \in [TrunkBlock -> {"pool", "sso", "rx", "tx", "lost"}]
  <2>1. where' = [b \in TrunkBlock |-> where'[b]]
    BY DEF TrunkReap
  <2>2. \A b \in TrunkBlock : where'[b] \in {"pool", "sso", "rx", "tx", "lost"}
    BY <1>1, <1>2
  <2> QED BY <2>1, <2>2
<1>5. ~freedTwice'
  BY <1>1, <1>3 DEF TrunkReap
<1>6. done' \subseteq TrunkBlock /\ old' \subseteq TrunkBlock /\ \A b \in done' \cup old' : where'[b] = "tx"
  BY <1>1, <1>2 DEF TrunkReap
<1>7. TrunkPending' = (TrunkPending \ Reaped) \cup bs
  BY <1>2 DEF TrunkPending
<1>8. \A b \in TrunkBlock : where[b] \in {"sso", "rx"} => where'[b] = where[b]
  BY <1>2, <1>3
<1> QED BY <1>4, <1>5, <1>6, <1>7, <1>8

\* Preparing the hardware moves no block.
LEMMA TrunkStageStep == ASSUME TrunkInv, Stage PROVE TrunkInv'
<1>1. UNCHANGED <<where, done, old, work, thread, dev, running, accepting, dqOpen, error, pki, queue, freedTwice>>
  BY DEF Stage, flags
<1>2. prep \subseteq TrunkSteps /\ dmaError \in BOOLEAN /\ mem \in {"none", "held", "publishing", "published"}
  BY DEF TrunkInv, TrunkShape
<1>3. prep' \subseteq TrunkSteps /\ dmaError' \in BOOLEAN /\ mem' \in {"none", "held", "publishing", "published"}
  <2>1. CASE PrepareDma \/ PublishDma
    BY <1>2, <2>1 DEF PrepareDma, PublishDma
  <2>2. ASSUME NEW ok \in BOOLEAN, FinishDma(ok) PROVE prep' \subseteq TrunkSteps /\ dmaError' \in BOOLEAN /\ mem' \in {"none", "held", "publishing", "published"}
    BY <1>2, <2>2 DEF FinishDma, ReleaseUnpublished, TrunkSteps
  <2>3. ASSUME NEW step \in TrunkSteps \ {"dma"}, NEW ok \in BOOLEAN, TrunkPrepare(step, ok)
        PROVE prep' \subseteq TrunkSteps /\ dmaError' \in BOOLEAN /\ mem' \in {"none", "held", "publishing", "published"}
    BY <1>2, <2>3 DEF TrunkPrepare
  <2> QED BY <2>1, <2>2, <2>3 DEF Stage
<1>4. TrunkPlaces' /\ TrunkPhases' /\ ~freedTwice'
  BY <1>1 DEF TrunkInv, TrunkPlaces, TrunkPhases, TrunkPending, TrunkBoxes, TrunkHolds
<1>5. TrunkShape'
  BY <1>1, <1>3 DEF TrunkInv, TrunkShape
<1> QED BY <1>4, <1>5 DEF TrunkInv

\* A transmit takes its block from the pool, and only while the device is up.
LEMMA TrunkXmitStep == ASSUME TrunkInv, Xmit PROVE TrunkInv'
<1>1. UNCHANGED <<prep, mem, dmaError, work, thread, dev, running, accepting, dqOpen, pki>>
  BY DEF Xmit, stages, flags
<1>2. error' \in BOOLEAN /\ queue' \in BOOLEAN
  BY DEF Xmit, TrunkInv, TrunkShape
<1>3. PICK bs \in SUBSET TrunkBlock : (\A b \in bs : where[b] = "pool") /\ TrunkReap(bs) /\ (bs # {} => accepting)
  <2>1. CASE TrunkReap({})
    BY <2>1
  <2>2. CASE accepting /\ \E b \in {x \in TrunkBlock : where[x] = "pool"} : TrunkReap({b})
    BY <2>2
  <2> QED BY <2>1, <2>2 DEF Xmit
<1>4. /\ where' \in [TrunkBlock -> {"pool", "sso", "rx", "tx", "lost"}]
      /\ done' \subseteq TrunkBlock /\ old' \subseteq TrunkBlock /\ ~freedTwice'
      /\ \A b \in TrunkBlock : where[b] \in {"sso", "rx"} => where'[b] = where[b]
      /\ \A b \in done' \cup old' : where'[b] = "tx"
      /\ TrunkPending' = (TrunkPending \ Reaped) \cup bs
  BY <1>3, TrunkReaps
<1>5. TrunkPlaces'
  BY <1>1, <1>4, TrunkPlacesKept DEF TrunkHolds
<1>6. TrunkPhases'
  BY <1>1, <1>3, <1>4 DEF TrunkInv, TrunkPhases
<1>7. TrunkShape'
  BY <1>1, <1>2, <1>4 DEF TrunkInv, TrunkShape
<1> QED BY <1>4, <1>5, <1>6, <1>7 DEF TrunkInv

\* The hardware: a received packet takes blocks of the pool, a completion belongs
\* to an outstanding command, and commands grow old.
LEMMA TrunkHardwareSteps ==
  ASSUME TrunkInv, TrunkAge \/ (\E b \in TrunkBlock : Complete(b)) \/ (\E g \in TrunkGroup : Ingress(g))
  PROVE  TrunkInv'
<1>0. UNCHANGED <<prep, mem, dmaError, thread, dev, running, accepting, dqOpen, error, pki, queue, freedTwice>>
  BY DEF TrunkAge, Complete, Ingress, stages, flags
<1>1. CASE TrunkAge \/ \E b \in TrunkBlock : Complete(b)
  <2>1. UNCHANGED <<where, work>> /\ (\A b \in done' \cup old' : b \in TrunkBlock /\ where'[b] = "tx")
    BY <1>1 DEF TrunkAge, Complete, TrunkInv, TrunkShape, TrunkPlaces, TrunkPending
  <2>2. TrunkPlaces'
    BY <1>0, <2>1, TrunkPlacesKept DEF TrunkHolds
  <2>3. TrunkPending' = TrunkPending
    BY <2>1 DEF TrunkPending
  <2>4. TrunkShape'
    BY <1>0, <2>1 DEF TrunkInv, TrunkShape
  <2> QED BY <1>0, <2>2, <2>3, <2>4 DEF TrunkInv, TrunkPhases
<1>2. ASSUME NEW g \in TrunkGroup, Ingress(g) PROVE TrunkInv'
  <2>1. PICK bs \in SUBSET {b \in TrunkBlock : where[b] = "pool"}, w \in TrunkBlock, chain \in SUBSET TrunkBlock :
           /\ w \in bs /\ chain \subseteq bs
           /\ work' = work \cup {[grp |-> g, item |-> [wqe |-> w, chain |-> chain]]}
           /\ where' = [b \in TrunkBlock |-> IF b \in bs THEN "sso" ELSE where[b]]
    BY <1>2 DEF Ingress
  <2> DEFINE item == [wqe |-> w, chain |-> chain]
             v == [grp |-> g, item |-> item]
  <2>2. UNCHANGED <<done, old>>
    BY <1>2 DEF Ingress
  <2>3. /\ where \in [TrunkBlock -> {"pool", "sso", "rx", "tx", "lost"}] /\ TrunkPlaces /\ work \subseteq [grp : TrunkGroup, item : TrunkItems]
        /\ done \subseteq TrunkBlock /\ old \subseteq TrunkBlock
    BY DEF TrunkInv, TrunkShape
  <2>4. \A b \in TrunkBlock : where'[b] = IF b \in bs THEN "sso" ELSE where[b]
    BY <2>1
  <2>5. where' \in [TrunkBlock -> {"pool", "sso", "rx", "tx", "lost"}]
    BY <2>1, <2>3
  <2>6. item \in TrunkItems /\ TrunkBoxes(item) \subseteq bs /\ v.item = item /\ v \in [grp : TrunkGroup, item : TrunkItems]
    BY <2>1 DEF TrunkItems, TrunkBoxes
  <2> HIDE DEF item
  <2>7. work' = work \cup {v}
    BY <2>1 DEF item
  <2> HIDE DEF v
  <2>8. \A u \in work' : TrunkBoxes(u.item) \subseteq TrunkBlock /\ \A b \in TrunkBoxes(u.item) : where'[b] = "sso"
    <3> SUFFICES ASSUME NEW u \in work' PROVE TrunkBoxes(u.item) \subseteq TrunkBlock /\ \A b \in TrunkBoxes(u.item) : where'[b] = "sso"
      OBVIOUS
    <3>1. CASE u = v
      BY <2>1, <2>4, <2>6, <3>1
    <3>2. CASE u \in work
      BY <2>3, <2>4, <3>2 DEF TrunkPlaces
    <3> QED BY <2>7, <3>1, <3>2
  <2>9. \A t, u \in work' : t # u => TrunkBoxes(t.item) \cap TrunkBoxes(u.item) = {}
    <3>1. \A u \in work : TrunkBoxes(u.item) \cap TrunkBoxes(v.item) = {}
      <4>1. \A u \in work : \A b \in TrunkBoxes(u.item) : where[b] = "sso"
        BY <2>3 DEF TrunkPlaces
      <4>2. \A b \in TrunkBoxes(v.item) : where[b] = "pool"
        BY <2>1, <2>6
      <4> QED BY <4>1, <4>2
    <3>2. \A t, u \in work : t # u => TrunkBoxes(t.item) \cap TrunkBoxes(u.item) = {}
      BY <2>3 DEF TrunkPlaces
    <3> QED BY <2>7, <3>1, <3>2
  <2>10. \A b \in done' \cup old' : where'[b] = "tx"
    BY <2>1, <2>2, <2>3, <2>4 DEF TrunkPlaces
  <2>11. \A h \in TrunkGroup : TrunkHolds(h) =>
          TrunkBoxes(thread[h].item) \subseteq TrunkBlock /\ \A b \in TrunkBoxes(thread[h].item) : where'[b] = "rx"
    BY <2>1, <2>3, <2>4 DEF TrunkPlaces
  <2>12. TrunkPlaces'
    <3>1. \A h, k \in TrunkGroup : h # k /\ TrunkHolds(h) /\ TrunkHolds(k) =>
            TrunkBoxes(thread[h].item) \cap TrunkBoxes(thread[k].item) = {}
      BY <2>3 DEF TrunkPlaces
    <3> QED BY <1>0, <2>8, <2>9, <2>10, <2>11, <3>1 DEF TrunkPlaces, TrunkHolds, TrunkBoxes
  <2>13. TrunkPending' = TrunkPending
    BY <2>1, <2>4 DEF TrunkPending
  <2>14. work' \subseteq [grp : TrunkGroup, item : TrunkItems]
    BY <2>3, <2>6, <2>7 DEF v
  <2>15. TrunkShape'
    BY <1>0, <2>2, <2>3, <2>5, <2>14 DEF TrunkInv, TrunkShape
  <2> QED BY <1>0, <2>12, <2>13, <2>15 DEF TrunkInv, TrunkPhases
<1> QED BY <1>1, <1>2

\* What a step of a receive thread leaves alone.
LEMMA TrunkThreadRest ==
  ASSUME TrunkInv, NEW g \in TrunkGroup, Thread(g), TrunkPlaces', ~freedTwice', TrunkPending' \subseteq TrunkPending,
         where' \in [TrunkBlock -> {"pool", "sso", "rx", "tx", "lost"}], done' \subseteq TrunkBlock, old' \subseteq TrunkBlock,
         work' \subseteq [grp : TrunkGroup, item : TrunkItems],
         thread' \in [TrunkGroup -> [pc : TrunkPcs, item : TrunkItems, n : Nat]]
  PROVE  TrunkInv'
<1>1. UNCHANGED <<prep, mem, dmaError, dev, running, accepting, dqOpen>>
  BY DEF Thread, TrunkBegin, TrunkTake, TrunkEmpty, TrunkRelease, Service, TrunkFault, stages, flags
<1>2. error' \in BOOLEAN /\ pki' \in BOOLEAN /\ queue' \in BOOLEAN
  BY DEF Thread, TrunkBegin, TrunkTake, TrunkEmpty, TrunkRelease, Service, TrunkFault, TrunkInv, TrunkShape
<1> QED BY <1>1, <1>2 DEF TrunkInv, TrunkShape, TrunkPhases

\* A thread that begins, gives up, serves the transmits or shuts a fault.
LEMMA TrunkThreadTurns ==
  ASSUME TrunkInv, NEW g \in TrunkGroup, TrunkBegin(g) \/ TrunkEmpty(g) \/ (g = 0 /\ (Service \/ TrunkFault))
  PROVE  TrunkInv'
<1>0. TrunkShape /\ ~freedTwice /\ Thread(g) /\ UNCHANGED work
  BY DEF TrunkInv, Thread, TrunkBegin, TrunkEmpty, Service, TrunkFault
<1>1. NoItem \in TrunkItems
  BY DEF NoItem, TrunkItems
<1>2. PICK pc \in {"batch", "service", "idle", "fault"} : TrunkGoto(g, pc, NoItem)
  BY DEF TrunkBegin, TrunkEmpty, Service, TrunkFault, After
<1>3. thread' \in [TrunkGroup -> [pc : TrunkPcs, item : TrunkItems, n : Nat]]
      /\ thread'[g].pc # "hold" /\ \A h \in TrunkGroup : h # g => thread'[h] = thread[h]
  BY <1>0, <1>1, <1>2, TrunkGoes DEF TrunkPcs
<1>4. \A h \in TrunkGroup : TrunkHolds(h)' => TrunkHolds(h) /\ thread'[h].item = thread[h].item
  BY <1>3 DEF TrunkHolds
<1>5. CASE TrunkReap({})
  <2>1. /\ where' \in [TrunkBlock -> {"pool", "sso", "rx", "tx", "lost"}] /\ done' \subseteq TrunkBlock /\ old' \subseteq TrunkBlock /\ ~freedTwice'
        /\ \A b \in TrunkBlock : where[b] \in {"sso", "rx"} => where'[b] = where[b]
        /\ \A b \in done' \cup old' : where'[b] = "tx"
        /\ TrunkPending' \subseteq TrunkPending
    BY <1>5, TrunkReaps
  <2>2. TrunkPlaces'
    BY <1>0, <1>4, <2>1, TrunkPlacesKept
  <2> QED BY <1>0, <1>3, <2>1, <2>2, TrunkThreadRest DEF TrunkShape
<1>6. CASE UNCHANGED <<where, done, old, freedTwice>>
  <2>1. TrunkPlaces'
    BY <1>0, <1>4, <1>6, TrunkPlacesKept DEF TrunkInv, TrunkPlaces
  <2>2. TrunkPending' = TrunkPending
    BY <1>6 DEF TrunkPending
  <2> QED BY <1>0, <1>3, <1>6, <2>1, <2>2, TrunkThreadRest DEF TrunkShape
<1> QED BY <1>5, <1>6 DEF TrunkBegin, TrunkEmpty, Service, TrunkFault

\* Taking a descriptor moves its blocks from the queue into the thread's hand.
LEMMA TrunkTakeStep == ASSUME TrunkInv, NEW g \in TrunkGroup, TrunkTake(g) PROVE TrunkInv'
<1>0. TrunkShape /\ TrunkPlaces /\ Thread(g) /\ UNCHANGED <<done, old, freedTwice>> /\ ~freedTwice
  BY DEF TrunkInv, Thread, TrunkTake
<1>1. PICK w \in work : /\ work' = work \ {w}
                        /\ where' = [b \in TrunkBlock |-> IF b \in TrunkBoxes(w.item) THEN "rx" ELSE where[b]]
                        /\ TrunkGoto(g, "hold", w.item)
  BY DEF TrunkTake, TrunkBoxes
<1>2. w.item \in TrunkItems /\ where \in [TrunkBlock -> {"pool", "sso", "rx", "tx", "lost"}] /\ thread[g].pc = "batch"
  BY <1>0 DEF TrunkShape, TrunkTake
<1>3. thread' \in [TrunkGroup -> [pc : TrunkPcs, item : TrunkItems, n : Nat]]
      /\ thread'[g].pc = "hold" /\ thread'[g].item = w.item /\ \A h \in TrunkGroup : h # g => thread'[h] = thread[h]
  BY <1>0, <1>1, <1>2, TrunkGoes DEF TrunkPcs
<1>4. where' \in [TrunkBlock -> {"pool", "sso", "rx", "tx", "lost"}]
      /\ \A b \in TrunkBlock : where'[b] = IF b \in TrunkBoxes(w.item) THEN "rx" ELSE where[b]
  BY <1>1, <1>2
<1>5. TrunkBoxes(w.item) \subseteq TrunkBlock /\ \A b \in TrunkBoxes(w.item) : where[b] = "sso"
  BY <1>0 DEF TrunkPlaces
<1>6. \A b \in done' \cup old' : where'[b] = "tx"
  BY <1>0, <1>4, <1>5 DEF TrunkPlaces, TrunkShape
<1>7. \A u \in work' : TrunkBoxes(u.item) \subseteq TrunkBlock /\ \A b \in TrunkBoxes(u.item) : where'[b] = "sso"
  <2> SUFFICES ASSUME NEW u \in work, u # w
               PROVE  TrunkBoxes(u.item) \subseteq TrunkBlock /\ \A b \in TrunkBoxes(u.item) : where'[b] = "sso"
    BY <1>1
  <2>1. TrunkBoxes(u.item) \cap TrunkBoxes(w.item) = {} /\ TrunkBoxes(u.item) \subseteq TrunkBlock
        /\ \A b \in TrunkBoxes(u.item) : where[b] = "sso"
    BY <1>0 DEF TrunkPlaces
  <2> QED BY <1>4, <2>1
<1>8. \A u, v \in work' : u # v => TrunkBoxes(u.item) \cap TrunkBoxes(v.item) = {}
  BY <1>0, <1>1 DEF TrunkPlaces
<1>9. ASSUME NEW h \in TrunkGroup, h # g, TrunkHolds(h)
      PROVE  TrunkBoxes(thread[h].item) \subseteq TrunkBlock /\ (\A b \in TrunkBoxes(thread[h].item) : where[b] = "rx" /\ where'[b] = "rx")
             /\ TrunkBoxes(thread[h].item) \cap TrunkBoxes(w.item) = {}
  <2>1. TrunkBoxes(thread[h].item) \subseteq TrunkBlock /\ \A b \in TrunkBoxes(thread[h].item) : where[b] = "rx"
    BY <1>0, <1>9 DEF TrunkPlaces
  <2> QED BY <1>4, <1>5, <2>1
<1>10. \A h \in TrunkGroup : TrunkHolds(h)' =>
         TrunkBoxes(thread'[h].item) \subseteq TrunkBlock /\ \A b \in TrunkBoxes(thread'[h].item) : where'[b] = "rx"
  <2> SUFFICES ASSUME NEW h \in TrunkGroup, thread'[h].pc = "hold"
               PROVE  TrunkBoxes(thread'[h].item) \subseteq TrunkBlock /\ \A b \in TrunkBoxes(thread'[h].item) : where'[b] = "rx"
    BY DEF TrunkHolds
  <2>1. CASE h = g
    BY <1>3, <1>4, <1>5, <2>1
  <2>2. CASE h # g
    BY <1>3, <1>9, <2>2 DEF TrunkHolds
  <2> QED BY <2>1, <2>2
<1>11. \A h, k \in TrunkGroup : h # k /\ TrunkHolds(h)' /\ TrunkHolds(k)' =>
         TrunkBoxes(thread'[h].item) \cap TrunkBoxes(thread'[k].item) = {}
  <2> SUFFICES ASSUME NEW h \in TrunkGroup, NEW k \in TrunkGroup, h # k, thread'[h].pc = "hold", thread'[k].pc = "hold"
               PROVE  TrunkBoxes(thread'[h].item) \cap TrunkBoxes(thread'[k].item) = {}
    BY DEF TrunkHolds
  <2>1. CASE h = g
    BY <1>3, <1>9, <2>1 DEF TrunkHolds
  <2>2. CASE k = g
    BY <1>3, <1>9, <2>2 DEF TrunkHolds
  <2>3. CASE h # g /\ k # g
    BY <1>0, <1>3, <2>3 DEF TrunkPlaces, TrunkHolds
  <2> QED BY <2>1, <2>2, <2>3
<1>12. TrunkPlaces'
  BY <1>6, <1>7, <1>8, <1>10, <1>11 DEF TrunkPlaces, TrunkBoxes, TrunkHolds
<1>13. TrunkPending' = TrunkPending
  BY <1>4, <1>5 DEF TrunkPending
<1>14. work' \subseteq [grp : TrunkGroup, item : TrunkItems]
  BY <1>0, <1>1 DEF TrunkShape
<1> QED BY <1>0, <1>3, <1>4, <1>12, <1>13, <1>14, TrunkThreadRest DEF TrunkShape

\* A thread gives its hand back, to the pool or to nobody.
LEMMA TrunkReleaseStep == ASSUME TrunkInv, NEW g \in TrunkGroup, TrunkRelease(g) PROVE TrunkInv'
<1>0. TrunkShape /\ TrunkPlaces /\ Thread(g) /\ UNCHANGED <<done, old, work>> /\ ~freedTwice /\ TrunkHolds(g)
  BY DEF TrunkInv, Thread, TrunkRelease, TrunkHolds
<1>1. NoItem \in TrunkItems
  BY DEF NoItem, TrunkItems
<1>2. PICK pc \in {"batch", "service", "idle"} : TrunkGoto(g, pc, NoItem)
  BY DEF TrunkRelease, After
<1>3. thread' \in [TrunkGroup -> [pc : TrunkPcs, item : TrunkItems, n : Nat]]
      /\ thread'[g].pc # "hold" /\ \A h \in TrunkGroup : h # g => thread'[h] = thread[h]
  BY <1>0, <1>1, <1>2, TrunkGoes DEF TrunkPcs
<1>4. where \in [TrunkBlock -> {"pool", "sso", "rx", "tx", "lost"}]
      /\ TrunkBoxes(thread[g].item) \subseteq TrunkBlock /\ \A b \in TrunkBoxes(thread[g].item) : where[b] = "rx"
  BY <1>0 DEF TrunkShape, TrunkPlaces
<1>5. PICK to \in {"pool", "lost"} :
        where' = [b \in TrunkBlock |-> IF b \in TrunkBoxes(thread[g].item) THEN to ELSE where[b]]
  <2> DEFINE item == thread[g].item
  <2>1. item.chain \cup (IF TrunkSecond(item) THEN {item.wqe} ELSE {}) = TrunkBoxes(item)
    BY DEF TrunkSecond, TrunkBoxes
  <2> QED BY <2>1 DEF TrunkRelease, TrunkFree, TrunkBoxes
<1>6. ~freedTwice'
  BY <1>0 DEF TrunkRelease, TrunkSecond
<1>7. where' \in [TrunkBlock -> {"pool", "sso", "rx", "tx", "lost"}]
      /\ \A b \in TrunkBlock : where'[b] = IF b \in TrunkBoxes(thread[g].item) THEN to ELSE where[b]
  BY <1>4, <1>5
<1>8. \A b \in done' \cup old' : where'[b] = "tx"
  BY <1>0, <1>4, <1>7 DEF TrunkPlaces, TrunkShape
<1>9. \A u \in work' : TrunkBoxes(u.item) \subseteq TrunkBlock /\ \A b \in TrunkBoxes(u.item) : where'[b] = "sso"
  BY <1>0, <1>4, <1>7 DEF TrunkPlaces
<1>10. \A h \in TrunkGroup : TrunkHolds(h)' =>
         TrunkBoxes(thread'[h].item) \subseteq TrunkBlock /\ \A b \in TrunkBoxes(thread'[h].item) : where'[b] = "rx"
  <2> SUFFICES ASSUME NEW h \in TrunkGroup, thread'[h].pc = "hold"
               PROVE  TrunkBoxes(thread'[h].item) \subseteq TrunkBlock /\ \A b \in TrunkBoxes(thread'[h].item) : where'[b] = "rx"
    BY DEF TrunkHolds
  <2>1. h # g /\ thread'[h] = thread[h] /\ TrunkHolds(h)
    BY <1>3 DEF TrunkHolds
  <2>2. TrunkBoxes(thread[h].item) \subseteq TrunkBlock /\ (\A b \in TrunkBoxes(thread[h].item) : where[b] = "rx")
        /\ TrunkBoxes(thread[h].item) \cap TrunkBoxes(thread[g].item) = {}
    BY <1>0, <2>1 DEF TrunkPlaces
  <2> QED BY <1>7, <2>1, <2>2
<1>11. \A h, k \in TrunkGroup : h # k /\ TrunkHolds(h)' /\ TrunkHolds(k)' =>
         TrunkBoxes(thread'[h].item) \cap TrunkBoxes(thread'[k].item) = {}
  BY <1>0, <1>3 DEF TrunkPlaces, TrunkHolds
<1>12. TrunkPlaces'
  <2>1. \A u, v \in work' : u # v => TrunkBoxes(u.item) \cap TrunkBoxes(v.item) = {}
    BY <1>0 DEF TrunkPlaces
  <2> QED BY <1>8, <1>9, <1>10, <1>11, <2>1 DEF TrunkPlaces, TrunkBoxes, TrunkHolds
<1>13. TrunkPending' = TrunkPending
  BY <1>4, <1>7 DEF TrunkPending
<1> QED BY <1>0, <1>3, <1>6, <1>7, <1>12, <1>13, TrunkThreadRest DEF TrunkShape

\* Opening and stopping the device: the queues are closed only once the drain has
\* found no command outstanding.
LEMMA TrunkDeviceSteps == ASSUME TrunkInv, Device PROVE TrunkInv'
<1>0. TrunkShape /\ TrunkPlaces /\ TrunkPhases /\ ~freedTwice /\ UNCHANGED <<prep, mem, dmaError, work, thread>>
  BY DEF TrunkInv, Device, TrunkOpen, Opened, TrunkFence, Quiet, Drained, TrunkClosed, stages, Blocks
<1>1. CASE Drained
  <2>1. /\ dev = "draining" /\ TrunkReap({}) /\ running' = FALSE /\ error' \in BOOLEAN
        /\ dev' = (IF Left = 0 /\ work = {} THEN "closing" ELSE "down")
        /\ UNCHANGED <<accepting, dqOpen, pki, queue>>
    BY <1>0, <1>1 DEF Drained, TrunkShape
  <2>2. /\ where' \in [TrunkBlock -> {"pool", "sso", "rx", "tx", "lost"}] /\ done' \subseteq TrunkBlock /\ old' \subseteq TrunkBlock /\ ~freedTwice'
        /\ \A b \in TrunkBlock : where[b] \in {"sso", "rx"} => where'[b] = where[b]
        /\ \A b \in done' \cup old' : where'[b] = "tx"
        /\ TrunkPending' = TrunkPending \ Reaped
    BY <2>1, TrunkReaps
  <2>3. TrunkPlaces'
    BY <1>0, <2>2, TrunkPlacesKept DEF TrunkHolds
  <2>4. Left = 0 => TrunkPending' = {}
    <3>1. IsFiniteSet(TrunkPending \ Reaped)
      BY TrunkAssumption, FS_Subset DEF TrunkPending
    <3> QED BY <2>2, <3>1, FS_EmptySet DEF Left
  <2>5. TrunkPhases'
    BY <1>0, <2>1, <2>4 DEF TrunkPhases
  <2>6. TrunkShape'
    BY <1>0, <2>1, <2>2 DEF TrunkShape
  <2> QED BY <2>2, <2>3, <2>5, <2>6 DEF TrunkInv
<1>2. CASE TrunkOpen \/ Opened \/ TrunkFence \/ Quiet \/ TrunkClosed
  <2>1. UNCHANGED <<where, done, old, work, thread, freedTwice>>
    BY <1>2 DEF TrunkOpen, Opened, TrunkFence, Quiet, TrunkClosed, Blocks
  <2>2. TrunkPlaces'
    BY <1>0, <2>1, TrunkPlacesKept DEF TrunkHolds, TrunkPlaces
  <2>3. TrunkPending' = TrunkPending
    BY <2>1 DEF TrunkPending
  <2>4. TrunkPhases'
    <3>1. CASE TrunkOpen
      BY <1>0, <2>3, <3>1 DEF TrunkOpen, TrunkPhases
    <3>2. CASE Opened
      BY <1>0, <2>3, <3>2 DEF Opened, TrunkPhases
    <3>3. CASE TrunkFence
      BY <1>0, <2>3, <3>3 DEF TrunkFence, TrunkPhases
    <3>4. CASE Quiet
      BY <1>0, <2>3, <3>4 DEF Quiet, TrunkPhases, flags
    <3>5. CASE TrunkClosed
      BY <1>0, <2>3, <3>5 DEF TrunkClosed, TrunkPhases
    <3> QED BY <1>2, <3>1, <3>2, <3>3, <3>4, <3>5
  <2>5. /\ dev' \in {"down", "opening", "up", "fenced", "draining", "closing"} /\ running' \in BOOLEAN /\ accepting' \in BOOLEAN
        /\ dqOpen' \in BOOLEAN /\ error' \in BOOLEAN /\ pki' \in BOOLEAN /\ queue' \in BOOLEAN
    BY <1>0, <1>2 DEF TrunkOpen, Opened, TrunkFence, Quiet, TrunkClosed, TrunkShape, flags
  <2>6. TrunkShape'
    BY <1>0, <2>1, <2>5 DEF TrunkShape
  <2> QED BY <1>0, <2>1, <2>2, <2>4, <2>6 DEF TrunkInv
<1> QED BY <1>1, <1>2 DEF Device

\* However the receive threads, the transmit path, completions and the stop of
\* the device interleave: no block returns to the pool twice, and a closed
\* descriptor queue has no command outstanding (ffn_dp_packet_init.c
\* trunk_reap, trunk_receive, trunk_stop).
THEOREM TrunkBlocksSafe == TrunkSpec => []TrunkSafe
<1>1. TrunkInit => TrunkInv
  <2> SUFFICES ASSUME TrunkInit PROVE TrunkInv
    OBVIOUS
  <2>1. thread \in [TrunkGroup -> [pc : TrunkPcs, item : TrunkItems, n : Nat]] /\ \A g \in TrunkGroup : ~TrunkHolds(g)
    BY DEF TrunkInit, TrunkPcs, TrunkItems, NoItem, TrunkHolds
  <2>2. TrunkPending = {}
    BY DEF TrunkInit, TrunkPending
  <2> QED BY <2>1, <2>2 DEF TrunkInit, TrunkInv, TrunkShape, TrunkPlaces, TrunkPhases
<1>2. TrunkInv /\ [TrunkNext]_trunkVars => TrunkInv'
  <2> SUFFICES ASSUME TrunkInv, [TrunkNext]_trunkVars PROVE TrunkInv'
    OBVIOUS
  <2>1. CASE UNCHANGED trunkVars
    BY <2>1 DEF trunkVars, TrunkInv, TrunkShape, TrunkPlaces, TrunkPhases, TrunkPending, TrunkBoxes, TrunkHolds
  <2>2. ASSUME NEW g \in TrunkGroup, Thread(g) PROVE TrunkInv'
    BY <2>2, TrunkThreadTurns, TrunkTakeStep, TrunkReleaseStep DEF Thread
  <2> QED BY <2>1, <2>2, TrunkStageStep, TrunkXmitStep, TrunkHardwareSteps, TrunkDeviceSteps DEF TrunkNext
<1>3. TrunkInv => TrunkSafe
  BY DEF TrunkInv, TrunkShape, TrunkPlaces, TrunkPhases, TrunkSafe, TrunkTypeOK, TrunkBoxes, FreedOnce, ClosedIdle
<1> QED BY <1>1, <1>2, <1>3, PTL DEF TrunkSpec

\* Whatever step of the preparation fails: memory the packet hardware has been
\* told of is not given back (prepare-dma of ffn_dp_dma.h).
THEOREM TrunkMemoryKept == TrunkSpec => PublishedKept
<1>1. [TrunkNext]_trunkVars => [(mem \in {"publishing", "published"}) => mem' = "published"]_mem
  <2> SUFFICES ASSUME [TrunkNext]_trunkVars, mem' # mem, mem \in {"publishing", "published"} PROVE mem' = "published"
    OBVIOUS
  <2>1. Stage
    BY DEF TrunkNext, trunkVars, Xmit, TrunkAge, Device, TrunkOpen, Opened, TrunkFence, Quiet, Drained, TrunkClosed, Ingress, Complete, Thread,
       TrunkBegin, TrunkTake, TrunkEmpty, TrunkRelease, Service, TrunkFault, stages
  <2> QED BY <2>1 DEF Stage, PrepareDma, PublishDma, FinishDma, ReleaseUnpublished, TrunkPrepare
<1> QED BY <1>1, PTL DEF TrunkSpec, PublishedKept

-----------------------------------------------------------------------------
(***************************************************************************)
(* Inline inspection.                                                      *)
(***************************************************************************)
\* What it is to end with a sequence, element by element.
LEMMA EndsIs ==
  ASSUME NEW s \in Seq(Byte), NEW p \in Seq(Byte)
  PROVE  EndsWith(s, p) <=> Len(p) <= Len(s) /\ \A k \in 1 .. Len(p) : p[k] = s[Len(s) - Len(p) + k]
<1> DEFINE m == Len(s) - Len(p)
           t == SubSeq(s, m + 1, Len(s))
<1>1. CASE ~(Len(p) <= Len(s))
  BY <1>1 DEF EndsWith
<1>2. CASE Len(p) <= Len(s)
  <2>1. m \in Nat /\ Len(s) = m + Len(p) /\ Len(s) \in Nat /\ Len(p) \in Nat
    BY <1>2
  <2>2. t \in Seq(Byte) /\ Len(t) = Len(p) /\ \A k \in 1 .. Len(p) : t[k] = s[m + k]
    BY <2>1
  <2> HIDE DEF t, m
  <2>3. t = p <=> \A k \in 1 .. Len(p) : t[k] = p[k]
    <3>1. ASSUME \A k \in 1 .. Len(p) : t[k] = p[k] PROVE t = p
      BY <2>2, <3>1, SeqEqual
    <3> QED BY <3>1
  <2> QED BY <1>2, <2>2, <2>3 DEF EndsWith, t, m
<1> QED BY <1>1, <1>2

LEMMA EndsTrans ==
  ASSUME NEW s \in Seq(Byte), NEW p \in Seq(Byte), NEW q \in Seq(Byte), EndsWith(s, p), EndsWith(p, q)
  PROVE  EndsWith(s, q)
<1>1. Len(p) <= Len(s) /\ \A k \in 1 .. Len(p) : p[k] = s[Len(s) - Len(p) + k]
  BY EndsIs
<1>2. Len(q) <= Len(p) /\ \A k \in 1 .. Len(q) : q[k] = p[Len(p) - Len(q) + k]
  BY EndsIs
<1>3. ASSUME NEW k \in 1 .. Len(q) PROVE q[k] = s[Len(s) - Len(q) + k]
  <2>1. Len(p) - Len(q) + k \in 1 .. Len(p) /\ Len(s) - Len(p) + (Len(p) - Len(q) + k) = Len(s) - Len(q) + k
    BY <1>2
  <2> QED BY <1>1, <1>2, <2>1
<1>4. Len(q) <= Len(s)
  BY <1>1, <1>2
<1> QED BY <1>3, <1>4, EndsIs

LEMMA EndsNest ==
  ASSUME NEW s \in Seq(Byte), NEW p \in Seq(Byte), NEW q \in Seq(Byte),
         EndsWith(s, p), EndsWith(s, q), Len(q) <= Len(p)
  PROVE  EndsWith(p, q)
<1>1. Len(p) <= Len(s) /\ \A k \in 1 .. Len(p) : p[k] = s[Len(s) - Len(p) + k]
  BY EndsIs
<1>2. Len(q) <= Len(s) /\ \A k \in 1 .. Len(q) : q[k] = s[Len(s) - Len(q) + k]
  BY EndsIs
<1>3. ASSUME NEW k \in 1 .. Len(q) PROVE q[k] = p[Len(p) - Len(q) + k]
  <2>1. Len(p) - Len(q) + k \in 1 .. Len(p) /\ Len(s) - Len(p) + (Len(p) - Len(q) + k) = Len(s) - Len(q) + k
    OBVIOUS
  <2> QED BY <1>1, <1>2, <2>1
<1> QED BY <1>3, EndsIs

LEMMA EndsSame ==
  ASSUME NEW s \in Seq(Byte), NEW p \in Seq(Byte), NEW q \in Seq(Byte),
         EndsWith(s, p), EndsWith(s, q), Len(q) = Len(p)
  PROVE  p = q
<1>1. Len(p) <= Len(s) /\ \A k \in 1 .. Len(p) : p[k] = s[Len(s) - Len(p) + k]
  BY EndsIs
<1>2. \A k \in 1 .. Len(q) : q[k] = s[Len(s) - Len(q) + k]
  BY EndsIs
<1>3. \A k \in 1 .. Len(p) : p[k] = q[k]
  BY <1>1, <1>2
<1> QED BY <1>3, SeqEqual

LEMMA EndsSelf == ASSUME NEW s \in Seq(Byte) PROVE EndsWith(s, s) /\ EndsWith(s, <<>>)
<1>1. Len(s) \in Nat /\ <<>> \in Seq(Byte) /\ Len(<<>>) = 0
  OBVIOUS
<1>2. EndsWith(s, s)
  <2>1. \A k \in 1 .. Len(s) : s[k] = s[Len(s) - Len(s) + k]
    BY <1>1
  <2> QED BY <1>1, <2>1, EndsIs
<1> DEFINE e == <<>>
<1>3. e \in Seq(Byte) /\ Len(e) <= Len(s) /\ \A k \in 1 .. Len(e) : e[k] = s[Len(s) - Len(e) + k]
  BY <1>1
<1> HIDE DEF e
<1>4. EndsWith(s, e)
  BY <1>3, EndsIs
<1> QED BY <1>2, <1>4 DEF e

\* One more byte.
LEMMA EndsAppend ==
  ASSUME NEW s \in Seq(Byte), NEW c \in Byte, NEW p \in Seq(Byte), p # <<>>
  PROVE  EndsWith(Append(s, c), p) <=> Final(p) = c /\ EndsWith(s, Front(p))
<1> DEFINE t == Append(s, c)
           f == Front(p)
           n == Len(p)
<1>1. Len(s) \in Nat /\ t \in Seq(Byte) /\ Len(t) = Len(s) + 1 /\ t[Len(s) + 1] = c /\ \A k \in 1 .. Len(s) : t[k] = s[k]
  OBVIOUS
<1>2. n \in Nat /\ n >= 1
  OBVIOUS
<1>3. f \in Seq(Byte) /\ Len(f) = n - 1 /\ \A k \in 1 .. n - 1 : f[k] = p[k]
  <2>1. n - 1 \in Nat /\ n - 1 <= Len(p) /\ \A k \in 1 .. n - 1 : p[k] \in Byte
    BY <1>2
  <2>2. f = SubSeq(p, 1, n - 1)
    BY DEF Front
  <2> HIDE DEF n, f
  <2> QED BY <2>1, <2>2, SubSeqProperties
<1>4. EndsWith(t, p) <=> n <= Len(t) /\ \A k \in 1 .. n : p[k] = t[Len(t) - n + k]
  <2> HIDE DEF t
  <2> QED BY <1>1, EndsIs
<1>5. EndsWith(s, f) <=> Len(f) <= Len(s) /\ \A k \in 1 .. Len(f) : f[k] = s[Len(s) - Len(f) + k]
  <2> HIDE DEF f
  <2> QED BY <1>3, EndsIs
<1> HIDE DEF t, f, n
<1>6. ASSUME n <= Len(t) PROVE /\ \A k \in 1 .. n - 1 : t[Len(t) - n + k] = s[Len(s) - Len(f) + k]
                               /\ t[Len(t) - n + n] = c
  <2>1. ASSUME NEW k \in 1 .. n - 1 PROVE t[Len(t) - n + k] = s[Len(s) - Len(f) + k]
    <3>1. Len(t) - n + k = Len(s) - Len(f) + k /\ Len(s) - Len(f) + k \in 1 .. Len(s)
      BY <1>1, <1>2, <1>3, <1>6
    <3> QED BY <1>1, <3>1
  <2> QED BY <1>1, <1>2, <2>1
<1>7. n <= Len(t) <=> Len(f) <= Len(s)
  BY <1>1, <1>2, <1>3
<1>8. ASSUME n <= Len(t)
      PROVE  (\A k \in 1 .. n : p[k] = t[Len(t) - n + k]) <=> p[n] = c /\ \A k \in 1 .. Len(f) : f[k] = s[Len(s) - Len(f) + k]
  <2>1. \A k \in 1 .. n : k = n \/ k \in 1 .. n - 1
    BY <1>2
  <2>2. n \in 1 .. n /\ \A k \in 1 .. n - 1 : k \in 1 .. n
    BY <1>2
  <2> QED BY <1>3, <1>6, <1>8, <2>1, <2>2
<1> QED BY <1>4, <1>5, <1>7, <1>8 DEF Final, t, f, n

LEMMA AppendEnds ==
  ASSUME NEW s \in Seq(Byte), NEW t \in Seq(Byte), NEW c \in Byte, EndsWith(s, t)
  PROVE  EndsWith(Append(s, c), Append(t, c))
<1> DEFINE p == Append(t, c)
<1>1. p \in Seq(Byte) /\ p # <<>> /\ Final(p) = c /\ Front(p) = t
  BY DEF Front, Final
<1> HIDE DEF p
<1> QED BY <1>1, EndsAppend DEF p

\* Without its first byte.
LEMMA EndsTail ==
  ASSUME NEW s \in Seq(Byte), s # <<>>
  PROVE  /\ Tail(s) \in Seq(Byte) /\ Len(Tail(s)) = Len(s) - 1
         /\ \A p \in Seq(Byte) : EndsWith(Tail(s), p) <=> EndsWith(s, p) /\ p # s
<1> DEFINE t == Tail(s)
<1>1. t \in Seq(Byte) /\ Len(t) = Len(s) - 1 /\ Len(s) \in Nat /\ \A k \in 1 .. Len(s) - 1 : t[k] = s[k + 1]
  OBVIOUS
<1> HIDE DEF t
<1>2. EndsWith(s, t)
  <2>1. \A k \in 1 .. Len(t) : t[k] = s[Len(s) - Len(t) + k]
    BY <1>1
  <2> QED BY <1>1, <2>1, EndsIs
<1>3. ASSUME NEW p \in Seq(Byte), EndsWith(t, p) PROVE EndsWith(s, p) /\ p # s
  <2>1. EndsWith(s, p)
    BY <1>1, <1>2, <1>3, EndsTrans
  <2>2. Len(p) <= Len(t)
    BY <1>3 DEF EndsWith
  <2> QED BY <1>1, <2>1, <2>2
<1>4. ASSUME NEW p \in Seq(Byte), EndsWith(s, p), p # s PROVE EndsWith(t, p)
  <2>1. Len(p) <= Len(s) /\ Len(p) \in Nat
    BY <1>4 DEF EndsWith
  <2>2. Len(p) # Len(s)
    BY <1>4, EndsSelf, EndsSame
  <2>3. Len(p) <= Len(t)
    BY <1>1, <2>1, <2>2
  <2> QED BY <1>1, <1>2, <1>4, <2>3, EndsNest
<1> QED BY <1>1, <1>3, <1>4 DEF t

(* The states, and the longest of them that a sequence of bytes ends with.  *)
ScanLongest(w, u) ==
  u \in States /\ EndsWith(w, u) /\ \A v \in States : EndsWith(w, v) => Len(v) <= Len(u)
LongestIn(w) == CHOOSE u : ScanLongest(w, u)

LEMMA ScanSigs ==
  ASSUME NEW i \in DOMAIN Sigs
  PROVE  /\ Sigs[i].pat \in Seq(Byte) /\ Len(Sigs[i].pat) \in 1 .. MaxPat
         /\ Sigs[i].act \in 1 .. Reset /\ i \in 1 .. Len(Sigs)
<1> DEFINE R == [pat : Seq(Byte), act : 1 .. Reset]
<1>1. Sigs \in Seq(R) /\ Len(Sigs[i].pat) \in 1 .. MaxPat
  BY ScanAssumption
<1>2. i \in 1 .. Len(Sigs) /\ Sigs[i] \in R
  <2> HIDE DEF R
  <2> QED BY <1>1
<1> QED BY <1>1, <1>2

LEMMA ScanStates ==
  /\ <<>> \in States
  /\ \A i \in DOMAIN Sigs : Sigs[i].pat \in States
  /\ \A u \in States : /\ u \in Seq(Byte) /\ Len(u) \in 0 .. MaxPat
                       /\ u # <<>> => Len(u) >= 1 /\ Front(u) \in States /\ Final(u) \in Byte /\ Len(Front(u)) = Len(u) - 1
<1>0. MaxPat \in Nat
  BY ScanAssumption
<1>1. <<>> \in States
  BY DEF States
<1>2. ASSUME NEW i \in DOMAIN Sigs, NEW n \in 1 .. Len(Sigs[i].pat) PROVE SubSeq(Sigs[i].pat, 1, n) \in States
  BY DEF States
<1>3. ASSUME NEW i \in DOMAIN Sigs PROVE Sigs[i].pat \in States
  <2> DEFINE p == Sigs[i].pat
  <2>1. p \in Seq(Byte) /\ Len(p) \in 1 .. Len(p)
    BY ScanSigs
  <2>2. SubSeq(p, 1, Len(p)) \in States
    BY <1>2, <2>1
  <2> HIDE DEF p
  <2>3. SubSeq(p, 1, Len(p)) = p
    BY <2>1, SubSeqFull
  <2> QED BY <2>2, <2>3 DEF p
<1>4. ASSUME NEW u \in States
      PROVE  /\ u \in Seq(Byte) /\ Len(u) \in 0 .. MaxPat
             /\ u # <<>> => Len(u) >= 1 /\ Front(u) \in States /\ Final(u) \in Byte /\ Len(Front(u)) = Len(u) - 1
  <2>1. CASE u = <<>>
    BY <1>0, <2>1
  <2>2. CASE u # <<>>
    <3>0. PICK i \in DOMAIN Sigs : \E n \in 1 .. Len(Sigs[i].pat) : u = SubSeq(Sigs[i].pat, 1, n)
      BY <2>2 DEF States
    <3>1. PICK n \in 1 .. Len(Sigs[i].pat) : u = SubSeq(Sigs[i].pat, 1, n)
      BY <3>0
    <3> DEFINE p == Sigs[i].pat
    <3>2. p \in Seq(Byte) /\ Len(p) \in Nat /\ Len(p) <= MaxPat /\ n \in 1 .. Len(p)
      BY ScanSigs
    <3>3. n - 1 # 0 => SubSeq(p, 1, n - 1) \in States
      BY <1>2, <3>2
    <3>4. u = SubSeq(p, 1, n)
      BY <3>1
    <3> HIDE DEF p
    <3>5. \A k \in 1 .. n : p[k] \in Byte
      BY <3>2
    <3>6. u \in Seq(Byte) /\ Len(u) = n /\ \A k \in 1 .. n : u[k] = p[k]
      BY <3>2, <3>4, <3>5, SubSeqProperties
    <3>7. Front(u) = SubSeq(p, 1, n - 1)
      <4> DEFINE f == SubSeq(u, 1, n - 1)
                 g == SubSeq(p, 1, n - 1)
      <4>1. f \in Seq(Byte) /\ Len(f) = n - 1 /\ \A k \in 1 .. n - 1 : f[k] = u[k]
        BY <3>6, SubSeqProperties
      <4>2. g \in Seq(Byte) /\ Len(g) = n - 1 /\ \A k \in 1 .. n - 1 : g[k] = p[k]
        BY <3>2, <3>5, SubSeqProperties
      <4>3. \A k \in 1 .. n - 1 : f[k] = g[k]
        BY <3>6, <4>1, <4>2
      <4>4. Front(u) = f
        BY <3>6 DEF Front
      <4> HIDE DEF f, g
      <4>5. f = g
        BY <4>1, <4>2, <4>3, SeqEqual
      <4> QED BY <4>4, <4>5 DEF g
    <3>8. Len(Front(u)) = n - 1
      BY <3>2, <3>5, <3>7, SubSeqProperties
    <3>9. Front(u) \in States
      <4>1. ASSUME n = 1 PROVE Front(u) = <<>>
        <5>1. n - 1 < 1 /\ n - 1 \in Int
          BY <4>1
        <5>2. SubSeq(p, 1, n - 1) = <<>>
          BY <5>1, SubSeqEmpty
        <5> QED BY <3>7, <5>2
      <4>2. ASSUME n # 1 PROVE Front(u) \in States
        <5>1. n - 1 # 0
          BY <3>2, <4>2
        <5> QED BY <3>3, <3>7, <5>1
      <4> QED BY <1>1, <4>1, <4>2
    <3>10. Final(u) \in Byte
      BY <3>2, <3>5, <3>6 DEF Final
    <3> QED BY <1>0, <2>2, <3>2, <3>6, <3>8, <3>9, <3>10
  <2> QED BY <2>1, <2>2
<1> QED BY <1>1, <1>3, <1>4

LEMMA LongestExists == ASSUME NEW w \in Seq(Byte) PROVE ScanLongest(w, LongestIn(w)) /\ LongestIn(w) \in Seq(Byte)
<1> DEFINE V == {v \in States : EndsWith(w, v)}
           T == {Len(w) - Len(v) : v \in V}
<1>1. Len(w) \in Nat /\ \A v \in V : v \in Seq(Byte) /\ Len(v) \in Nat /\ Len(v) <= Len(w)
  BY ScanStates DEF EndsWith
<1>2. <<>> \in V
  BY ScanStates, EndsSelf
<1>3. T \subseteq Nat /\ T # {}
  BY <1>1, <1>2
<1>4. PICK x \in T : \A y \in T : x <= y
  <2> HIDE DEF T
  <2> QED BY <1>3, SmallestOf
<1>5. PICK u \in V : x = Len(w) - Len(u)
  OBVIOUS
<1>6. ASSUME NEW v \in V PROVE Len(v) <= Len(u)
  <2>1. x <= Len(w) - Len(v)
    BY <1>4
  <2>2. Len(u) \in Nat /\ Len(v) \in Nat
    BY <1>1
  <2> HIDE DEF V, T
  <2> QED BY <1>1, <1>5, <2>1, <2>2
<1>7. ScanLongest(w, u)
  BY <1>5, <1>6 DEF ScanLongest
<1>8. ScanLongest(w, LongestIn(w))
  BY <1>7 DEF LongestIn
<1> QED BY <1>8, ScanStates DEF ScanLongest

LEMMA LongestUnique ==
  ASSUME NEW w \in Seq(Byte), NEW u, ScanLongest(w, u)
  PROVE  u = LongestIn(w)
<1> DEFINE v == LongestIn(w)
<1>1. ScanLongest(w, v)
  BY LongestExists
<1> HIDE DEF v
<1>2. u \in Seq(Byte) /\ v \in Seq(Byte) /\ Len(u) \in Nat /\ Len(v) \in Nat /\ EndsWith(w, u) /\ EndsWith(w, v)
  BY <1>1, ScanStates DEF ScanLongest
<1>3. Len(u) <= Len(v) /\ Len(v) <= Len(u)
  BY <1>1, <1>2 DEF ScanLongest
<1>4. Len(u) = Len(v)
  BY <1>2, <1>3
<1>5. u = v
  BY <1>2, <1>4, EndsSame
<1> QED BY <1>5 DEF v

\* A state stands for all the bytes that led to it: the next byte leads on from
\* it to where it leads from all of them.
LEMMA LongestAppend ==
  ASSUME NEW w \in Seq(Byte), NEW c \in Byte, NEW u, ScanLongest(w, u)
  PROVE  LongestIn(Append(w, c)) = LongestIn(Append(u, c))
<1> DEFINE s == Append(w, c)
           t == Append(u, c)
           v == LongestIn(t)
<1>1. u \in States /\ u \in Seq(Byte) /\ EndsWith(w, u)
  BY ScanStates DEF ScanLongest
<1>2. s \in Seq(Byte) /\ t \in Seq(Byte) /\ EndsWith(s, t)
  BY <1>1, AppendEnds
<1>3. ScanLongest(t, v)
  <2> HIDE DEF t
  <2> QED BY <1>2, LongestExists
<1>4. v \in States /\ v \in Seq(Byte) /\ Len(v) \in Nat
  <2> HIDE DEF v
  <2> QED BY <1>3, ScanStates DEF ScanLongest
<1>5. EndsWith(s, v)
  <2> HIDE DEF s, t, v
  <2> QED BY <1>2, <1>3, <1>4, EndsTrans DEF ScanLongest
<1>6. ASSUME NEW x \in States, EndsWith(s, x) PROVE Len(x) <= Len(v)
  <2>1. CASE x = <<>>
    BY <1>4, <2>1
  <2>2. CASE x # <<>>
    <3>1. x \in Seq(Byte) /\ Front(x) \in States /\ Front(x) \in Seq(Byte)
      BY <2>2, ScanStates
    <3>2. Final(x) = c /\ EndsWith(w, Front(x))
      BY <1>6, <2>2, <3>1, EndsAppend
    <3>3. Len(Front(x)) <= Len(u)
      BY <3>1, <3>2 DEF ScanLongest
    <3>4. EndsWith(u, Front(x))
      BY <1>1, <3>1, <3>2, <3>3, EndsNest
    <3>5. EndsWith(t, x)
      BY <1>1, <2>2, <3>1, <3>2, <3>4, EndsAppend
    <3> HIDE DEF t, v
    <3> QED BY <1>3, <3>5 DEF ScanLongest
  <2> QED BY <2>1, <2>2
<1>7. ScanLongest(s, v)
  <2> HIDE DEF s, v
  <2> QED BY <1>4, <1>5, <1>6 DEF ScanLongest
<1>8. v = LongestIn(s)
  <2> HIDE DEF s, v
  <2> QED BY <1>2, <1>7, LongestUnique
<1> QED BY <1>8

\* What is no state ends with what it ends with after its first byte.
LEMMA LongestTail ==
  ASSUME NEW w \in Seq(Byte), w \notin States
  PROVE  LongestIn(w) = LongestIn(Tail(w))
<1> DEFINE t == Tail(w)
           u == LongestIn(t)
<1>1. w # <<>>
  BY ScanStates
<1>2. t \in Seq(Byte) /\ \A p \in Seq(Byte) : EndsWith(t, p) <=> EndsWith(w, p) /\ p # w
  BY <1>1, EndsTail
<1> HIDE DEF t
<1>3. ScanLongest(t, u)
  BY <1>2, LongestExists
<1> HIDE DEF u
<1>4. \A p \in States : EndsWith(t, p) <=> EndsWith(w, p)
  BY <1>2, ScanStates
<1>5. ScanLongest(w, u)
  BY <1>3, <1>4 DEF ScanLongest
<1> QED BY <1>5, LongestUnique DEF u, t

LEMMA LongestSelf == ASSUME NEW u \in States PROVE LongestIn(u) = u
<1>1. u \in Seq(Byte)
  BY ScanStates
<1>2. ScanLongest(u, u)
  BY <1>1, EndsSelf DEF ScanLongest, EndsWith
<1> QED BY <1>1, <1>2, LongestUnique

(* The table.  The failure state of a state is the longest of its proper   *)
(* suffixes that is one.                                                    *)
ScanFail(u) == IF Len(u) <= 1 THEN <<>> ELSE LongestIn(Tail(u))
ScanStep(u, c) == IF c = Eps THEN ScanFail(u) ELSE LongestIn(Append(u, c))

LEMMA TailAppend ==
  ASSUME NEW u \in Seq(Byte), u # <<>>, NEW c \in Byte
  PROVE  Tail(Append(u, c)) = Append(Tail(u), c)
<1> DEFINE a == Append(u, c)
           s == Tail(a)
           v == Tail(u)
           t == Append(v, c)
           n == Len(u)
<1>1. n \in Nat /\ n >= 1
  OBVIOUS
<1>2. a \in Seq(Byte) /\ a # <<>> /\ Len(a) = n + 1 /\ a[n + 1] = c /\ \A i \in 1 .. n : a[i] = u[i]
  BY AppendProperties
<1>3. v \in Seq(Byte) /\ Len(v) = n - 1 /\ \A i \in 1 .. n - 1 : v[i] = u[i + 1]
  BY HeadTailProperties
<1>4. t \in Seq(Byte) /\ Len(t) = n /\ t[n] = c /\ \A i \in 1 .. n - 1 : t[i] = v[i]
  <2> HIDE DEF v, n
  <2>1. Len(v) + 1 = n
    BY <1>1, <1>3
  <2> QED BY <1>3, <2>1, AppendProperties
<1>5. s \in Seq(Byte) /\ Len(s) = n /\ \A i \in 1 .. n : s[i] = a[i + 1]
  <2> HIDE DEF a, n
  <2> QED BY <1>1, <1>2, HeadTailProperties
<1> HIDE DEF a, s, v, t, n
<1>6. ASSUME NEW i \in 1 .. n PROVE s[i] = t[i]
  <2>1. CASE i = n
    BY <1>1, <1>2, <1>4, <1>5, <2>1
  <2>2. CASE i # n
    <3>1. i \in 1 .. n - 1 /\ i + 1 \in 1 .. n
      BY <1>1, <2>2
    <3> QED BY <1>2, <1>3, <1>4, <1>5, <3>1
  <2> QED BY <2>1, <2>2
<1>7. s = t
  BY <1>4, <1>5, <1>6, SeqEqual
<1> QED BY <1>7 DEF s, t, a, v

LEMMA FrontAppend ==
  ASSUME NEW u \in Seq(Byte), u # <<>>
  PROVE  /\ Front(u) \in Seq(Byte) /\ Final(u) \in Byte /\ Len(Front(u)) = Len(u) - 1
         /\ u = Append(Front(u), Final(u))
<1> DEFINE n == Len(u)
           f == Front(u)
           a == Append(f, u[n])
<1>1. n \in Nat /\ n >= 1 /\ \A i \in 1 .. n : u[i] \in Byte
  OBVIOUS
<1>2. f = SubSeq(u, 1, n - 1)
  BY DEF Front
<1>3. u[n] \in Byte
  BY <1>1
<1> HIDE DEF n, f
<1>4. f \in Seq(Byte) /\ Len(f) = n - 1 /\ \A i \in 1 .. n - 1 : f[i] = u[i]
  <2>1. \A i \in 1 .. n - 1 : u[i] \in Byte
    BY <1>1
  <2> QED BY <1>1, <1>2, <2>1, SubSeqProperties
<1>5. a \in Seq(Byte) /\ Len(a) = (n - 1) + 1 /\ a[(n - 1) + 1] = u[n] /\ \A i \in 1 .. n - 1 : a[i] = f[i]
  BY <1>3, <1>4, AppendProperties
<1> HIDE DEF a
<1>6. (n - 1) + 1 = n /\ \A i \in 1 .. n : i = n \/ i \in 1 .. n - 1
  BY <1>1
<1>7. \A i \in 1 .. n : u[i] = a[i]
  BY <1>4, <1>5, <1>6
<1>8. u = a
  BY <1>5, <1>6, <1>7, SeqEqual DEF n
<1> QED BY <1>3, <1>4, <1>8 DEF a, n, f, Final

LEMMA LongestOfNone == LongestIn(<<>>) = <<>>
  BY ScanStates, LongestSelf

LEMMA ScanFailIs ==
  /\ ScanFail(<<>>) = <<>>
  /\ \A u \in States : u # <<>> => /\ ScanLongest(Tail(u), ScanFail(u))
                                   /\ ScanFail(u) = LongestIn(Tail(u))
                                   /\ ScanFail(u) \in States /\ Len(ScanFail(u)) < Len(u)
<1>1. ScanFail(<<>>) = <<>>
  BY DEF ScanFail
<1>2. ASSUME NEW u \in States, u # <<>>
      PROVE  /\ ScanLongest(Tail(u), ScanFail(u)) /\ ScanFail(u) = LongestIn(Tail(u))
             /\ ScanFail(u) \in States /\ Len(ScanFail(u)) < Len(u)
  <2> DEFINE t == Tail(u)
             f == LongestIn(t)
  <2>1. u \in Seq(Byte) /\ Len(u) \in Nat /\ Len(u) >= 1
    BY <1>2, ScanStates
  <2>2. t \in Seq(Byte) /\ Len(t) = Len(u) - 1
    BY <1>2, <2>1, HeadTailProperties
  <2> HIDE DEF t
  <2>3. ScanLongest(t, f)
    BY <2>2, LongestExists
  <2> HIDE DEF f
  <2>4. f \in States /\ Len(f) \in Nat /\ Len(f) <= Len(t)
    <3>1. f \in States /\ EndsWith(t, f)
      BY <2>3 DEF ScanLongest
    <3> QED BY <3>1, ScanStates DEF EndsWith
  <2>5. ScanFail(u) = f
    <3>1. CASE Len(u) <= 1
      <4>1. Len(t) = 0
        BY <2>1, <2>2, <3>1
      <4>2. t = <<>>
        BY <2>2, <4>1
      <4>3. f = <<>>
        BY <4>2, LongestOfNone DEF f
      <4> QED BY <3>1, <4>3 DEF ScanFail
    <3>2. CASE ~(Len(u) <= 1)
      BY <3>2 DEF ScanFail, f, t
    <3> QED BY <3>1, <3>2
  <2> QED BY <2>1, <2>2, <2>3, <2>4, <2>5 DEF t, f
<1> QED BY <1>1, <1>2

\* The equation that the construction solves, for states and bytes.
LEMMA ScanStepSolves ==
  ASSUME NEW u \in States, NEW c \in Byte \cup {Eps}
  PROVE  ScanStep(u, c) =
           IF c = Eps
           THEN IF Len(u) <= 1 THEN <<>> ELSE ScanStep(ScanStep(Front(u), Eps), Final(u))
           ELSE IF Append(u, c) \in States THEN Append(u, c)
           ELSE IF u = <<>> THEN <<>> ELSE ScanStep(ScanStep(u, Eps), c)
<1>0. Byte \subseteq Nat /\ \A b \in Byte : b # Eps
  BY ScanAssumption DEF Eps
<1>1. u \in Seq(Byte) /\ Len(u) \in Nat
  BY ScanStates
<1>2. CASE c = Eps
  <2>1. CASE Len(u) <= 1
    BY <1>2, <2>1 DEF ScanStep, ScanFail
  <2>2. CASE ~(Len(u) <= 1)
    <3> DEFINE f == Front(u)
               b == Final(u)
               w == Tail(f)
    <3>1. u # <<>>
      BY <2>2
    <3>2. f \in Seq(Byte) /\ b \in Byte /\ Len(f) = Len(u) - 1 /\ u = Append(f, b) /\ f \in States
      BY <1>1, <3>1, FrontAppend, ScanStates
    <3> HIDE DEF f, b
    <3>3. f # <<>>
      BY <1>1, <2>2, <3>2
    <3>4. Tail(u) = Append(w, b) /\ w \in Seq(Byte)
      BY <3>2, <3>3, TailAppend, HeadTailProperties
    <3>5. ScanLongest(w, ScanFail(f))
      BY <3>2, <3>3, ScanFailIs
    <3>6. LongestIn(Append(w, b)) = LongestIn(Append(ScanFail(f), b))
      <4> HIDE DEF w
      <4> QED BY <3>2, <3>4, <3>5, LongestAppend
    <3>7. ScanStep(u, c) = LongestIn(Append(w, b))
      BY <1>2, <2>2, <3>4 DEF ScanStep, ScanFail
    <3>8. ScanStep(ScanStep(f, Eps), b) = LongestIn(Append(ScanFail(f), b))
      BY <1>0, <3>2 DEF ScanStep
    <3> QED BY <1>2, <2>2, <3>6, <3>7, <3>8 DEF f, b
  <2> QED BY <2>1, <2>2
<1>3. CASE c # Eps
  <2> DEFINE a == Append(u, c)
  <2>1. c \in Byte /\ ScanStep(u, c) = LongestIn(a)
    BY <1>3 DEF ScanStep
  <2>2. a \in Seq(Byte) /\ a # <<>>
    BY <1>1, <2>1, AppendProperties
  <2>3. CASE a \in States
    BY <1>3, <2>1, <2>3, LongestSelf
  <2>4. CASE a \notin States
    <3>1. LongestIn(a) = LongestIn(Tail(a))
      <4> HIDE DEF a
      <4> QED BY <2>2, <2>4, LongestTail
    <3>2. CASE u = <<>>
      <4>1. Tail(a) = <<>>
        BY <3>2
      <4> QED BY <1>3, <2>1, <2>4, <3>1, <3>2, <4>1, LongestOfNone
    <3>3. CASE u # <<>>
      <4> DEFINE w == Tail(u)
      <4>1. Tail(a) = Append(w, c) /\ w \in Seq(Byte)
        BY <1>1, <2>1, <3>3, TailAppend, HeadTailProperties
      <4>2. ScanLongest(w, ScanFail(u))
        BY <3>3, ScanFailIs
      <4>3. LongestIn(Append(w, c)) = LongestIn(Append(ScanFail(u), c))
        <5> HIDE DEF w
        <5> QED BY <2>1, <4>1, <4>2, LongestAppend
      <4>4. ScanStep(ScanStep(u, Eps), c) = LongestIn(Append(ScanFail(u), c))
        BY <1>3 DEF ScanStep
      <4> QED BY <1>3, <2>1, <2>4, <3>1, <3>3, <4>1, <4>3, <4>4
    <3> QED BY <3>2, <3>3
  <2> QED BY <2>3, <2>4
<1> QED BY <1>2, <1>3

\* What the construction computes: the failure states, and for each byte the
\* longest state that the bytes then end with.
LEMMA ScanTableIs ==
  \A u \in States, c \in Byte \cup {Eps} : ScanTable[<<u, c>>] = ScanStep(u, c)
<1> DEFINE C == Byte \cup {Eps}
           B(g, x) == IF x[2] = Eps
                      THEN IF Len(x[1]) <= 1 THEN <<>> ELSE g[<<g[<<Front(x[1]), Eps>>], Final(x[1])>>]
                      ELSE IF Append(x[1], x[2]) \in States THEN Append(x[1], x[2])
                      ELSE IF x[1] = <<>> THEN <<>> ELSE g[<<g[<<x[1], Eps>>], x[2]>>]
           Is(g) == g = [x \in States \X C |-> B(g, x)]
           F == [x \in States \X C |-> ScanStep(x[1], x[2])]
           T == ScanTable
<1>0. Eps \in C /\ \A b \in Byte : b \in C /\ b # Eps
  BY ScanAssumption DEF Eps
<1>1. \A u \in States, c \in C : ScanStep(u, c) \in States
  <2>1. ASSUME NEW u \in States PROVE ScanFail(u) \in States
    <3>1. CASE u = <<>>
      BY <3>1, ScanFailIs, ScanStates
    <3> QED BY <3>1, ScanFailIs
  <2>2. ASSUME NEW u \in States, NEW c \in Byte PROVE LongestIn(Append(u, c)) \in States
    <3> DEFINE a == Append(u, c)
    <3>1. a \in Seq(Byte)
      BY ScanStates, AppendProperties
    <3> HIDE DEF a
    <3>2. LongestIn(a) \in States
      BY <3>1, LongestExists DEF ScanLongest
    <3> QED BY <3>2 DEF a
  <2> QED BY <2>1, <2>2 DEF ScanStep
<1>2. \A u \in States, c \in C : F[<<u, c>>] = ScanStep(u, c)
  OBVIOUS
<1>3. ASSUME NEW u \in States PROVE Len(u) \in Nat /\ (Len(u) >= 1 => u # <<>> /\ Front(u) \in States /\ Final(u) \in C /\ Len(Front(u)) = Len(u) - 1)
  <2>1. Len(u) >= 1 => u # <<>>
    OBVIOUS
  <2> QED BY <1>0, <2>1, ScanStates
<1>4. ASSUME NEW u \in States, NEW c \in C
      PROVE  ScanStep(u, c) = B(F, <<u, c>>)
  <2> HIDE DEF F, C
  <2>1. c # Eps => F[<<u, Eps>>] = ScanStep(u, Eps) /\ F[<<ScanStep(u, Eps), c>>] = ScanStep(ScanStep(u, Eps), c)
    BY <1>0, <1>1, <1>2
  <2>2. ASSUME ~(Len(u) <= 1)
        PROVE  /\ F[<<Front(u), Eps>>] = ScanStep(Front(u), Eps)
               /\ F[<<ScanStep(Front(u), Eps), Final(u)>>] = ScanStep(ScanStep(Front(u), Eps), Final(u))
    <3>1. Front(u) \in States /\ Final(u) \in C
      BY <1>3, <2>2
    <3> QED BY <1>0, <1>1, <1>2, <3>1
  <2>3. /\ ScanStep(u, c) =
             IF c = Eps
             THEN IF Len(u) <= 1 THEN <<>> ELSE ScanStep(ScanStep(Front(u), Eps), Final(u))
             ELSE IF Append(u, c) \in States THEN Append(u, c)
             ELSE IF u = <<>> THEN <<>> ELSE ScanStep(ScanStep(u, Eps), c)
    BY ScanStepSolves DEF C
  <2> QED BY <2>1, <2>2, <2>3
<1>5. Is(F)
  <2>1. ASSUME NEW x \in States \X C PROVE ScanStep(x[1], x[2]) = B(F, x)
    <3>1. PICK u \in States, c \in C : x = <<u, c>>
      <4> HIDE DEF C
      <4> QED OBVIOUS
    <3> HIDE DEF F, C, B
    <3>2. ScanStep(u, c) = B(F, <<u, c>>)
      BY <1>4
    <3> QED BY <3>1, <3>2
  <2>2. F = [x \in States \X C |-> ScanStep(x[1], x[2])]
    OBVIOUS
  <2>3. F = [x \in States \X C |-> B(F, x)]
    <3> HIDE DEF F, B, C
    <3> QED BY <2>1, <2>2
  <2> QED BY <2>3
<1>6. T = CHOOSE g : Is(g)
  BY DEF ScanTable
<1>7. Is(T)
  <2> HIDE DEF Is, T, F
  <2> QED BY <1>5, <1>6
<1>8. ASSUME NEW u \in States, NEW c \in C PROVE T[<<u, c>>] = B(T, <<u, c>>)
  <2>1. <<u, c>> \in States \X C
    OBVIOUS
  <2> HIDE DEF T, B, C
  <2> QED BY <1>7, <2>1
<1> HIDE DEF T, F, Is
<1>9. ASSUME NEW N \in Nat
      PROVE  \A u \in States : Len(u) <= N => \A c \in C : T[<<u, c>>] = ScanStep(u, c)
  <2> DEFINE Q(n) == \A u \in States : Len(u) <= n => \A c \in C : T[<<u, c>>] = ScanStep(u, c)
             S == {n \in Nat : Q(n)}
  <2>1. ASSUME NEW n \in Nat, \A u \in States : Len(u) < n => \A c \in C : T[<<u, c>>] = ScanStep(u, c)
        PROVE  Q(n)
    <3> SUFFICES ASSUME NEW u \in States, Len(u) <= n PROVE \A c \in C : T[<<u, c>>] = ScanStep(u, c)
      OBVIOUS
    <3> DEFINE f == Front(u)
               e == ScanStep(f, Eps)
    <3>0. Len(u) \in Nat
      BY <1>3
    <3>1. T[<<u, Eps>>] = ScanStep(u, Eps)
      <4>1. T[<<u, Eps>>] = IF Len(u) <= 1 THEN <<>> ELSE T[<<T[<<f, Eps>>], Final(u)>>]
        BY <1>0, <1>8
      <4>2. ScanStep(u, Eps) = IF Len(u) <= 1 THEN <<>> ELSE ScanStep(e, Final(u))
        BY ScanStepSolves
      <4>3. ASSUME ~(Len(u) <= 1) PROVE T[<<f, Eps>>] = e /\ T[<<e, Final(u)>>] = ScanStep(e, Final(u))
        <5>1. f \in States /\ Final(u) \in C /\ f # <<>> /\ Len(f) = Len(u) - 1 /\ Len(f) \in Nat /\ u # <<>>
          <6>1. f \in States /\ Final(u) \in C /\ Len(f) = Len(u) - 1 /\ u # <<>>
            <7>1. Len(u) >= 1
              BY <3>0, <4>3
            <7> HIDE DEF C, B
            <7> QED BY <1>3, <7>1
          <6> HIDE DEF f, e, C, B, Q, S
          <6>2. Len(f) >= 1
            <7>1. Len(u) - 1 >= 1
              BY <3>0, <4>3
            <7>2. Len(f) = Len(u) - 1
              BY <6>1
            <7> QED BY <7>1, <7>2
          <6> QED BY <1>3, <6>1, <6>2
        <5> HIDE DEF f
        <5>2. e \in States /\ Len(e) < Len(f) /\ Len(e) \in Nat
          <6>1. e = ScanFail(f)
            BY DEF ScanStep
          <6> HIDE DEF e
          <6> QED BY <1>3, <5>1, <6>1, ScanFailIs
        <5> HIDE DEF e
        <5>3. Len(f) < n /\ Len(e) < n
          BY <3>0, <5>1, <5>2
        <5>4. T[<<f, Eps>>] = ScanStep(f, Eps)
          BY <1>0, <2>1, <5>1, <5>3
        <5>5. T[<<e, Final(u)>>] = ScanStep(e, Final(u))
          BY <2>1, <5>1, <5>2, <5>3
        <5> QED BY <5>4, <5>5 DEF e
      <4> HIDE DEF f, e
      <4> QED BY <4>1, <4>2, <4>3
    <3> HIDE DEF f, e
    <3>2. ASSUME NEW c \in Byte PROVE T[<<u, c>>] = ScanStep(u, c)
      <4> DEFINE v == ScanStep(u, Eps)
      <4>1. c \in C /\ c # Eps
        BY <1>0
      <4>2. T[<<u, c>>] = IF Append(u, c) \in States THEN Append(u, c)
                          ELSE IF u = <<>> THEN <<>> ELSE T[<<T[<<u, Eps>>], c>>]
        BY <1>8, <4>1
      <4>3. ScanStep(u, c) = IF Append(u, c) \in States THEN Append(u, c)
                             ELSE IF u = <<>> THEN <<>> ELSE ScanStep(v, c)
        BY <4>1, ScanStepSolves
      <4>4. ASSUME u # <<>> PROVE T[<<v, c>>] = ScanStep(v, c)
        <5>1. v = ScanFail(u)
          BY DEF ScanStep
        <5> HIDE DEF v
        <5>2. v \in States /\ Len(v) < Len(u) /\ Len(v) \in Nat
          BY <1>3, <4>4, <5>1, ScanFailIs
        <5>3. Len(v) < n
          BY <3>0, <5>2
        <5> QED BY <2>1, <4>1, <5>2, <5>3
      <4> HIDE DEF v
      <4> QED BY <3>1, <4>2, <4>3, <4>4 DEF v
    <3> QED BY <3>1, <3>2
  <2>2. 0 \in S
    <3>1. \A u \in States : ~(Len(u) < 0)
      BY <1>3
    <3>2. Q(0)
      <4> HIDE DEF Q
      <4> QED BY <2>1, <3>1
    <3> HIDE DEF Q
    <3> QED BY <3>2
  <2>3. ASSUME NEW n \in Nat, n \in S, n < N PROVE n + 1 \in S
    <3>1. \A u \in States : Len(u) < n + 1 => Len(u) <= n
      BY <1>3
    <3>2. Q(n)
      BY <2>3
    <3>3. \A u \in States : Len(u) < n + 1 => \A c \in C : T[<<u, c>>] = ScanStep(u, c)
      BY <3>1, <3>2
    <3>4. Q(n + 1)
      <4> HIDE DEF Q
      <4> QED BY <2>1, <3>3
    <3> HIDE DEF Q
    <3> QED BY <3>4
  <2>4. N \in S
    <3> HIDE DEF S
    <3>1. \A n \in 0 .. N : n \in S
      BY <2>2, <2>3, Inducts
    <3> QED BY <3>1
  <2> QED BY <2>4
<1>10. ASSUME NEW u \in States, NEW c \in C PROVE T[<<u, c>>] = ScanStep(u, c)
  <2>1. Len(u) \in Nat /\ Len(u) <= Len(u)
    BY <1>3
  <2> QED BY <1>9, <2>1
<1> QED BY <1>10 DEF T

(* The matches of each state.                                              *)
ScanIds(s) == {s[k] : k \in 1 .. Len(s)}

LEMMA IdsConcat ==
  ASSUME NEW S, NEW s \in Seq(S), NEW t \in Seq(S)
  PROVE  s \o t \in Seq(S) /\ ScanIds(s \o t) = ScanIds(s) \cup ScanIds(t)
<1> DEFINE r == s \o t
           m == Len(s)
           n == Len(t)
<1>1. r \in Seq(S) /\ Len(r) = m + n /\ m \in Nat /\ n \in Nat /\ \A i \in 1 .. m + n : r[i] = IF i <= m THEN s[i] ELSE t[i - m]
  BY ConcatProperties
<1> HIDE DEF r, m, n
<1>2. ASSUME NEW x \in ScanIds(r) PROVE x \in ScanIds(s) \cup ScanIds(t)
  <2>1. PICK i \in 1 .. m + n : x = r[i]
    BY <1>1 DEF ScanIds
  <2>2. CASE i <= m
    <3>1. i \in 1 .. m /\ x = s[i]
      BY <1>1, <2>1, <2>2
    <3> QED BY <3>1 DEF ScanIds, m
  <2>3. CASE ~(i <= m)
    <3>1. i - m \in 1 .. n /\ x = t[i - m]
      BY <1>1, <2>1, <2>3
    <3> QED BY <3>1 DEF ScanIds, n
  <2> QED BY <2>2, <2>3
<1>3. ASSUME NEW x \in ScanIds(s) PROVE x \in ScanIds(r)
  <2>1. PICK i \in 1 .. m : x = s[i]
    BY DEF ScanIds, m
  <2>2. i \in 1 .. Len(r) /\ x = r[i]
    BY <1>1, <2>1
  <2> QED BY <2>2 DEF ScanIds
<1>4. ASSUME NEW x \in ScanIds(t) PROVE x \in ScanIds(r)
  <2>1. PICK i \in 1 .. n : x = t[i]
    BY DEF ScanIds, n
  <2>2. i + m \in 1 .. Len(r) /\ (i + m) - m = i /\ ~(i + m <= m)
    BY <1>1
  <2>3. x = r[i + m]
    BY <1>1, <2>1, <2>2
  <2> QED BY <2>2, <2>3 DEF ScanIds
<1> QED BY <1>1, <1>2, <1>3, <1>4 DEF r

LEMMA ScanOwnIs ==
  ASSUME NEW u
  PROVE  ScanOwn(u) \in Seq(DOMAIN Sigs) /\ ScanIds(ScanOwn(u)) = {i \in DOMAIN Sigs : Sigs[i].pat = u}
<1> DEFINE M == Len(Sigs)
           St == Seq(DOMAIN Sigs)
           B(g, n) == IF n = 0 THEN <<>> ELSE IF Sigs[n].pat = u THEN <<n>> \o g[n - 1] ELSE g[n - 1]
           Is(g) == g = [n \in 0 .. M |-> B(g, n)]
           W == CHOOSE g : Is(g)
           H == [n \in 1 .. M |-> [w \in St |-> IF Sigs[n].pat = u THEN <<n>> \o w ELSE w]]
<1>1. M \in Nat /\ DOMAIN Sigs = 1 .. M
  BY ScanAssumption
<1>2. ScanOwn(u) = W[M]
  BY DEF ScanOwn
<1>3. ASSUME NEW n \in 1 .. M, NEW w \in St
      PROVE  <<n>> \in St /\ <<n>> \o w \in St /\ ScanIds(<<n>> \o w) = {n} \cup ScanIds(w)
  <2>1. <<n>> \in St /\ ScanIds(<<n>>) = {n}
    BY <1>1 DEF ScanIds
  <2> DEFINE s == <<n>>
             I == DOMAIN Sigs
  <2>2. s \in Seq(I) /\ w \in Seq(I) /\ ScanIds(s) = {n}
    BY <2>1
  <2> HIDE DEF s, I
  <2>3. s \o w \in Seq(I) /\ ScanIds(s \o w) = {n} \cup ScanIds(w)
    BY <2>2, IdsConcat
  <2> QED BY <2>2, <2>3 DEF s, I
<1>4. <<>> \in St /\ ScanIds(<<>>) = {}
  BY DEF ScanIds
<1>5. H \in [1 .. M -> [St -> St]]
  BY <1>3
<1> HIDE DEF St, M
<1>6. \E g : Is(g)
  <2>1. PICK f \in StepRuns(St, <<>>, M, H) : TRUE
    <3> HIDE DEF H
    <3> QED BY <1>1, <1>4, <1>5, StepsExist
  <2>2. f \in [0 .. M -> St] /\ \A n \in 0 .. M : f[n] = B(f, n)
    <3>1. f \in [0 .. M -> St] /\ f[0] = <<>> /\ \A n \in 1 .. M : f[n] = H[n][f[n - 1]]
      <4> HIDE DEF H
      <4> QED BY <2>1 DEF StepRuns
    <3>2. \A n \in 0 .. M : n # 0 => n \in 1 .. M /\ f[n - 1] \in St
      BY <1>1, <3>1
    <3> QED BY <3>1, <3>2
  <2>3. Is(f)
    <3> HIDE DEF B, H
    <3> QED BY <2>1, <2>2
  <2> QED BY <2>3
<1>7. Is(W)
  <2> HIDE DEF Is
  <2> QED BY <1>6
<1> HIDE DEF W
<1>8. W[0] = <<>> /\ \A n \in 1 .. M : W[n] = IF Sigs[n].pat = u THEN <<n>> \o W[n - 1] ELSE W[n - 1]
  <2>1. \A n \in 0 .. M : W[n] = B(W, n)
    <3> HIDE DEF B
    <3> QED BY <1>7
  <2>2. 0 \in 0 .. M /\ \A n \in 1 .. M : n \in 0 .. M /\ n # 0
    BY <1>1
  <2> QED BY <2>1, <2>2
<1> HIDE DEF Is, B, H
<1> DEFINE S == {n \in 0 .. M : W[n] \in St /\ ScanIds(W[n]) = {i \in 1 .. n : Sigs[i].pat = u}}
<1>9. 0 \in S
  BY <1>1, <1>4, <1>8
<1>10. ASSUME NEW n \in Nat, n \in S, n < M PROVE n + 1 \in S
  <2>1. n + 1 \in 1 .. M /\ (n + 1) - 1 = n /\ n + 1 \in 0 .. M /\ \A i \in 1 .. n + 1 : i = n + 1 \/ i \in 1 .. n
    BY <1>1, <1>10
  <2>2. W[n + 1] = IF Sigs[n + 1].pat = u THEN <<n + 1>> \o W[n] ELSE W[n]
    BY <1>8, <2>1
  <2>3. W[n] \in St /\ ScanIds(W[n]) = {i \in 1 .. n : Sigs[i].pat = u}
    BY <1>10
  <2>4. <<n + 1>> \o W[n] \in St /\ ScanIds(<<n + 1>> \o W[n]) = {n + 1} \cup ScanIds(W[n])
    BY <1>3, <2>1, <2>3
  <2>5. \A i \in 1 .. n : i \in 1 .. n + 1
    OBVIOUS
  <2>6. n + 1 \in 1 .. n + 1
    OBVIOUS
  <2>7. W[n + 1] \in St
    BY <2>2, <2>3, <2>4
  <2>8. ScanIds(W[n + 1]) = {i \in 1 .. n + 1 : Sigs[i].pat = u}
    BY <2>1, <2>2, <2>3, <2>4, <2>5, <2>6
  <2> QED BY <2>1, <2>7, <2>8
<1>11. M \in S
  <2> HIDE DEF S
  <2>1. \A n \in 0 .. M : n \in S
    BY <1>1, <1>9, <1>10, Inducts
  <2> QED BY <1>1, <2>1
<1> QED BY <1>1, <1>2, <1>11 DEF St

\* The longest state ends with every other one that the bytes end with.
LEMMA LongestEnds ==
  ASSUME NEW w \in Seq(Byte), NEW u, ScanLongest(w, u), NEW p \in States
  PROVE  EndsWith(w, p) <=> EndsWith(u, p)
<1>1. u \in Seq(Byte) /\ p \in Seq(Byte) /\ EndsWith(w, u)
  BY ScanStates DEF ScanLongest
<1>2. EndsWith(w, p) => Len(p) <= Len(u)
  BY DEF ScanLongest
<1> QED BY <1>1, <1>2, EndsTrans, EndsNest

\* What the matches of a state are built from.
ScanOutBody(g, u) == IF u = <<>> THEN <<>> ELSE ScanOwn(u) \o g[ScanTable[<<u, Eps>>]]

LEMMA ScanFailState ==
  ASSUME NEW u \in States, u # <<>>
  PROVE  /\ ScanTable[<<u, Eps>>] = ScanFail(u)
         /\ ScanFail(u) \in States /\ Len(ScanFail(u)) \in Nat /\ Len(u) \in Nat /\ Len(ScanFail(u)) < Len(u)
<1>1. ScanTable[<<u, Eps>>] = ScanStep(u, Eps)
  BY ScanTableIs
<1>2. ScanFail(u) \in States /\ Len(ScanFail(u)) < Len(u)
  BY ScanFailIs
<1> QED BY <1>1, <1>2, ScanStates DEF ScanStep

LEMMA ScanOutDefined ==
  \E f \in [States -> Seq(DOMAIN Sigs)] : f = [u \in States |-> ScanOutBody(f, u)]
<1> DEFINE I == Seq(DOMAIN Sigs)
           Shallow(n) == {u \in States : Len(u) <= n}
           Is(n) == \E f \in [Shallow(n) -> I] : \A u \in Shallow(n) : f[u] = ScanOutBody(f, u)
           S == {n \in 0 .. MaxPat : Is(n)}
<1>0. MaxPat \in Nat
  BY ScanAssumption
<1>1. \A u \in States : Len(u) \in 0 .. MaxPat
  BY ScanStates
<1>2. \A u : ScanOwn(u) \in I
  BY ScanOwnIs
<1>3. <<>> \in I
  OBVIOUS
<1>4. \A s \in I, t \in I : s \o t \in I
  BY IdsConcat
<1> HIDE DEF I
<1>5. 0 \in S
  <2> DEFINE f == [u \in Shallow(0) |-> <<>>]
  <2>1. f \in [Shallow(0) -> I]
    BY <1>3
  <2>2. ASSUME NEW u \in Shallow(0) PROVE f[u] = ScanOutBody(f, u)
    <3>1. u \in Seq(Byte) /\ Len(u) = 0
      BY ScanStates
    <3>2. u = <<>>
      BY <3>1
    <3> QED BY <3>2 DEF ScanOutBody
  <2>3. Is(0)
    <3> HIDE DEF f, Shallow
    <3> QED BY <2>1, <2>2
  <2> HIDE DEF Is
  <2> QED BY <1>0, <2>3
<1>6. ASSUME NEW n \in Nat, n \in S, n < MaxPat PROVE n + 1 \in S
  <2>1. PICK f \in [Shallow(n) -> I] : \A u \in Shallow(n) : f[u] = ScanOutBody(f, u)
    BY <1>6
  <2> DEFINE g == [u \in Shallow(n + 1) |-> IF u \in Shallow(n) THEN f[u] ELSE ScanOutBody(f, u)]
  <2>2. ASSUME NEW u \in Shallow(n + 1), u # <<>>
        PROVE  /\ ScanTable[<<u, Eps>>] \in Shallow(n) /\ f[ScanTable[<<u, Eps>>]] \in I
               /\ g[ScanTable[<<u, Eps>>]] = f[ScanTable[<<u, Eps>>]]
    <3> DEFINE v == ScanTable[<<u, Eps>>]
    <3>1. v \in States /\ Len(v) \in Nat /\ Len(v) < Len(u) /\ Len(u) <= n + 1 /\ Len(u) \in Nat
      BY <2>2, ScanFailState
    <3> HIDE DEF v
    <3>2. v \in Shallow(n) /\ v \in Shallow(n + 1)
      BY <3>1
    <3>3. g[v] = f[v] /\ f[v] \in I
      BY <3>2
    <3> HIDE DEF g, Shallow
    <3> QED BY <3>2, <3>3 DEF v
  <2>3. ASSUME NEW u \in Shallow(n + 1) PROVE g[u] \in I /\ g[u] = ScanOutBody(g, u)
    <3>1. ScanOutBody(g, u) = ScanOutBody(f, u)
      <4> HIDE DEF g, Shallow
      <4> QED BY <2>2, <2>3 DEF ScanOutBody
    <3>2. ScanOutBody(f, u) \in I
      <4> HIDE DEF g, Shallow
      <4> QED BY <1>2, <1>3, <1>4, <2>2, <2>3 DEF ScanOutBody
    <3>3. u \in Shallow(n) => f[u] = ScanOutBody(f, u)
      BY <2>1
    <3>4. g[u] = ScanOutBody(f, u)
      <4> HIDE DEF Shallow
      <4> QED BY <3>3
    <3> HIDE DEF g
    <3> QED BY <3>1, <3>2, <3>4
  <2>4. g \in [Shallow(n + 1) -> I]
    <3>1. \A u \in Shallow(n + 1) : (IF u \in Shallow(n) THEN f[u] ELSE ScanOutBody(f, u)) \in I
      <4> HIDE DEF Shallow
      <4> QED BY <2>3
    <3> HIDE DEF Shallow
    <3> QED BY <3>1
  <2>5. Is(n + 1)
    <3> HIDE DEF g, Shallow
    <3> QED BY <2>3, <2>4
  <2>6. n + 1 \in 0 .. MaxPat
    BY <1>0, <1>6
  <2> HIDE DEF Is
  <2> QED BY <2>5, <2>6
<1>7. Is(MaxPat)
  <2> HIDE DEF S
  <2>1. \A n \in 0 .. MaxPat : n \in S
    BY <1>0, <1>5, <1>6, Inducts
  <2>2. MaxPat \in S
    BY <1>0, <2>1
  <2> QED BY <2>2 DEF S
<1>8. Shallow(MaxPat) = States
  BY <1>0, <1>1
<1>9. PICK f \in [States -> I] : \A u \in States : f[u] = ScanOutBody(f, u)
  <2> HIDE DEF Shallow
  <2> QED BY <1>7, <1>8
<1>10. f = [u \in States |-> ScanOutBody(f, u)]
  BY <1>9
<1> QED BY <1>10 DEF I

\* The matches of a state are the patterns that it ends with.
LEMMA ScanOutIs ==
  \A u \in States : /\ ScanOut[u] \in Seq(DOMAIN Sigs)
                     /\ ScanIds(ScanOut[u]) = {i \in DOMAIN Sigs : EndsWith(u, Sigs[i].pat)}
<1> DEFINE I == Seq(DOMAIN Sigs)
           Is(g) == g = [u \in States |-> ScanOutBody(g, u)]
           O == ScanOut
           R(u) == O[u] \in I /\ ScanIds(O[u]) = {i \in DOMAIN Sigs : EndsWith(u, Sigs[i].pat)}
           S == {n \in 0 .. MaxPat : \A u \in States : Len(u) <= n => R(u)}
<1>0. MaxPat \in Nat /\ \A u \in States : Len(u) \in 0 .. MaxPat
  BY ScanAssumption, ScanStates
<1>1. O = CHOOSE g : Is(g)
  BY DEF ScanOut, ScanOutBody
<1>2. \E f : Is(f)
  BY ScanOutDefined
<1>3. Is(O)
  <2> HIDE DEF Is, O
  <2> QED BY <1>1, <1>2
<1>4. \A u \in States : O[u] = ScanOutBody(O, u)
  <2> HIDE DEF O
  <2> QED BY <1>3
<1> HIDE DEF O, Is
<1>5. ASSUME NEW u \in States, \A v \in States : Len(v) < Len(u) => R(v) PROVE R(u)
  <2>1. CASE u = <<>>
    <3>1. O[u] = <<>>
      BY <1>4, <2>1 DEF ScanOutBody
    <3>2. ASSUME NEW i \in DOMAIN Sigs PROVE ~EndsWith(u, Sigs[i].pat)
      BY <2>1, ScanSigs DEF EndsWith
    <3>3. <<>> \in I /\ ScanIds(<<>>) = {}
      BY DEF ScanIds
    <3> HIDE DEF I
    <3> QED BY <3>1, <3>2, <3>3
  <2>2. CASE u # <<>>
    <3> DEFINE v == ScanFail(u)
               t == Tail(u)
    <3>1. ScanTable[<<u, Eps>>] = v /\ v \in States /\ Len(v) < Len(u)
      BY <2>2, ScanFailState
    <3>2. ScanLongest(t, v)
      BY <2>2, ScanFailIs
    <3>3. u \in Seq(Byte) /\ t \in Seq(Byte) /\ \A p \in Seq(Byte) : EndsWith(t, p) <=> EndsWith(u, p) /\ p # u
      BY <2>2, ScanStates, EndsTail
    <3> HIDE DEF v, t
    <3>4. O[u] = ScanOwn(u) \o O[v]
      BY <1>4, <2>2, <3>1 DEF ScanOutBody
    <3>5. R(v)
      BY <1>5, <3>1
    <3>6. O[u] \in I /\ ScanIds(O[u]) = ScanIds(ScanOwn(u)) \cup ScanIds(O[v])
      <4>1. ScanOwn(u) \in I
        BY ScanOwnIs
      <4> QED BY <3>4, <3>5, <4>1, IdsConcat
    <3>7. ASSUME NEW i \in DOMAIN Sigs PROVE EndsWith(u, Sigs[i].pat) <=> Sigs[i].pat = u \/ EndsWith(v, Sigs[i].pat)
      <4> DEFINE p == Sigs[i].pat
      <4>1. p \in States /\ p \in Seq(Byte)
        BY ScanStates
      <4> HIDE DEF p
      <4>2. EndsWith(t, p) <=> EndsWith(v, p)
        BY <3>2, <3>3, <4>1, LongestEnds
      <4>3. EndsWith(t, p) <=> EndsWith(u, p) /\ p # u
        BY <3>3, <4>1
      <4>4. EndsWith(u, u)
        BY <3>3, EndsSelf
      <4> QED BY <4>2, <4>3, <4>4 DEF p
    <3>8. ScanIds(ScanOwn(u)) = {i \in DOMAIN Sigs : Sigs[i].pat = u}
      BY ScanOwnIs
    <3> HIDE DEF I
    <3>9. ScanIds(O[u]) = {i \in DOMAIN Sigs : EndsWith(u, Sigs[i].pat)}
      BY <3>5, <3>6, <3>7, <3>8
    <3> QED BY <3>6, <3>9
  <2> QED BY <2>1, <2>2
<1> HIDE DEF R
<1>6. 0 \in S
  <2>1. ASSUME NEW u \in States, Len(u) <= 0 PROVE R(u)
    <3>1. \A v \in States : ~(Len(v) < Len(u))
      BY <1>0, <2>1
    <3> QED BY <1>5, <3>1
  <2> QED BY <1>0, <2>1
<1>7. ASSUME NEW n \in Nat, n \in S, n < MaxPat PROVE n + 1 \in S
  <2>1. ASSUME NEW u \in States, Len(u) <= n + 1 PROVE R(u)
    <3>1. ASSUME NEW v \in States, Len(v) < Len(u) PROVE R(v)
      <4>1. Len(v) <= n
        BY <1>0, <2>1, <3>1
      <4> QED BY <1>7, <4>1
    <3> QED BY <1>5, <3>1
  <2> QED BY <1>0, <1>7, <2>1
<1>8. MaxPat \in S
  <2> HIDE DEF S
  <2>1. \A n \in 0 .. MaxPat : n \in S
    BY <1>0, <1>6, <1>7, Inducts
  <2> QED BY <1>0, <2>1
<1>9. \A u \in States : R(u)
  BY <1>0, <1>8
<1> QED BY <1>9 DEF R, O

(* The engines.  A verdict is raised by each match, until one blocks.      *)
ScanVerdict == NoMatch .. Reset

LEMMA ScanRaises ==
  ASSUME NEW M \in Nat, NEW A \in [1 .. M -> ScanVerdict], NEW a \in ScanVerdict, NEW R, R[0] = a,
         \A n \in 1 .. M : R[n] = IF R[n - 1] >= ScanBlock \/ A[n] <= R[n - 1] THEN R[n - 1] ELSE A[n]
  PROVE  /\ R[M] \in ScanVerdict
         /\ R[M] >= ScanBlock <=> a >= ScanBlock \/ \E n \in 1 .. M : A[n] >= ScanBlock
         /\ R[M] = NoMatch <=> a = NoMatch /\ \A n \in 1 .. M : A[n] = NoMatch
<1> USE DEF NoMatch, ScanBlock, Reset, ScanVerdict
<1> DEFINE Q(m) == /\ R[m] \in ScanVerdict
                   /\ R[m] >= ScanBlock <=> a >= ScanBlock \/ \E n \in 1 .. m : A[n] >= ScanBlock
                   /\ R[m] = NoMatch <=> a = NoMatch /\ \A n \in 1 .. m : A[n] = NoMatch
           S == {m \in 0 .. M : Q(m)}
<1>1. 0 \in S
  OBVIOUS
<1>2. ASSUME NEW m \in Nat, m \in S, m < M PROVE m + 1 \in S
  <2>1. m + 1 \in 1 .. M /\ (m + 1) - 1 = m /\ m + 1 \in 0 .. M
    BY <1>2
  <2>2. R[m + 1] = IF R[m] >= ScanBlock \/ A[m + 1] <= R[m] THEN R[m] ELSE A[m + 1]
    BY <2>1
  <2>3. A[m + 1] \in ScanVerdict /\ Q(m)
    BY <1>2, <2>1
  <2>4. m + 1 \in 1 .. m + 1 /\ (\A n \in 1 .. m : n \in 1 .. m + 1) /\ \A n \in 1 .. m + 1 : n \in 1 .. m \/ n = m + 1
    BY <1>2
  <2>5. Q(m + 1)
    BY <2>2, <2>3, <2>4
  <2> HIDE DEF Q
  <2> QED BY <2>1, <2>5
<1>3. M \in S
  <2> HIDE DEF S
  <2>1. \A m \in 0 .. M : m \in S
    BY <1>1, <1>2, Inducts
  <2> QED BY <2>1
<1> QED BY <1>3

LEMMA ScanRaiseIs ==
  ASSUME NEW worst \in ScanVerdict, NEW ids \in Seq(DOMAIN Sigs)
  PROVE  /\ ScanRaise(worst, ids) \in ScanVerdict
         /\ ScanRaise(worst, ids) >= ScanBlock <=> worst >= ScanBlock \/ \E i \in ScanIds(ids) : Sigs[i].act >= ScanBlock
         /\ ScanRaise(worst, ids) = NoMatch <=> worst = NoMatch /\ ScanIds(ids) = {}
<1> DEFINE M == Len(ids)
           A == [n \in 1 .. M |-> Sigs[ids[n]].act]
           B(g, n) == IF n = 0 THEN worst
                      ELSE IF g[n - 1] >= ScanBlock \/ Sigs[ids[n]].act <= g[n - 1] THEN g[n - 1] ELSE Sigs[ids[n]].act
           Is(g) == g = [n \in 0 .. M |-> B(g, n)]
           R == CHOOSE g : Is(g)
           H == [n \in 1 .. M |-> [r \in ScanVerdict |-> IF r >= ScanBlock \/ A[n] <= r THEN r ELSE A[n]]]
<1>1. M \in Nat /\ \A n \in 1 .. M : ids[n] \in DOMAIN Sigs
  OBVIOUS
<1>2. ScanRaise(worst, ids) = R[M]
  BY DEF ScanRaise
<1>3. \A n \in 1 .. M : A[n] \in ScanVerdict /\ A[n] # NoMatch /\ A[n] = Sigs[ids[n]].act
  BY <1>1, ScanSigs DEF NoMatch, Reset, ScanVerdict
<1> HIDE DEF M
<1>4. H \in [1 .. M -> [ScanVerdict -> ScanVerdict]] /\ A \in [1 .. M -> ScanVerdict]
  <2>1. A \in [1 .. M -> ScanVerdict]
    BY <1>3
  <2> HIDE DEF A
  <2> QED BY <1>3, <2>1
<1>5. \E g : Is(g)
  <2>1. PICK f \in StepRuns(ScanVerdict, worst, M, H) : TRUE
    <3> HIDE DEF H, A, B
    <3>1. M \in Nat
      BY <1>1
    <3>2. H \in [1 .. M -> [ScanVerdict -> ScanVerdict]]
      BY <1>4
    <3> QED BY <3>1, <3>2, StepsExist
  <2>2. f \in [0 .. M -> ScanVerdict] /\ \A n \in 0 .. M : f[n] = B(f, n)
    <3> HIDE DEF A
    <3>1. f \in [0 .. M -> ScanVerdict] /\ f[0] = worst /\ \A n \in 1 .. M : f[n] = H[n][f[n - 1]]
      <4> HIDE DEF H
      <4> QED BY <2>1 DEF StepRuns
    <3>2. \A n \in 0 .. M : n # 0 => n \in 1 .. M /\ f[n - 1] \in ScanVerdict
      BY <1>1, <3>1
    <3>3. \A n \in 1 .. M : f[n] = IF f[n - 1] >= ScanBlock \/ A[n] <= f[n - 1] THEN f[n - 1] ELSE A[n]
      <4>1. \A n \in 1 .. M : n \in 0 .. M /\ n # 0
        BY <1>1
      <4> QED BY <3>1, <3>2, <4>1
    <3> QED BY <1>3, <3>1, <3>2, <3>3
  <2>3. Is(f)
    <3> HIDE DEF B, H
    <3> QED BY <2>1, <2>2
  <2> QED BY <2>3
<1>6. Is(R)
  <2> HIDE DEF Is
  <2> QED BY <1>5
<1> HIDE DEF R
<1>7. R[0] = worst /\ \A n \in 1 .. M : R[n] = IF R[n - 1] >= ScanBlock \/ A[n] <= R[n - 1] THEN R[n - 1] ELSE A[n]
  <2>1. \A n \in 0 .. M : R[n] = B(R, n)
    <3> HIDE DEF B
    <3> QED BY <1>6
  <2>2. 0 \in 0 .. M /\ \A n \in 1 .. M : n \in 0 .. M /\ n # 0
    BY <1>1
  <2> QED BY <1>3, <2>1, <2>2
<1> HIDE DEF A, B, Is, H
<1>8. /\ R[M] \in ScanVerdict
      /\ R[M] >= ScanBlock <=> worst >= ScanBlock \/ \E n \in 1 .. M : A[n] >= ScanBlock
      /\ R[M] = NoMatch <=> worst = NoMatch /\ \A n \in 1 .. M : A[n] = NoMatch
  <2>1. A \in [1 .. M -> ScanVerdict]
    BY <1>4
  <2> QED BY <1>1, <1>7, <2>1, ScanRaises
<1>9. (\E n \in 1 .. M : A[n] >= ScanBlock) <=> \E i \in ScanIds(ids) : Sigs[i].act >= ScanBlock
  BY <1>3 DEF ScanIds, M
<1>10. (\A n \in 1 .. M : A[n] = NoMatch) <=> ScanIds(ids) = {}
  BY <1>3 DEF ScanIds, M
<1> QED BY <1>2, <1>8, <1>9, <1>10

LEMMA DlpScanIs ==
  ASSUME NEW bytes
  PROVE  LET hits == {j \in DOMAIN Rules : Occurs(Rules[j].pat, bytes)}
         IN  /\ DlpScan(bytes) \in ScanVerdict
             /\ DlpScan(bytes) >= ScanBlock <=> \E i \in hits : Rules[i].act >= ScanBlock
             /\ DlpScan(bytes) = NoMatch <=> hits = {}
             /\ \A i \in hits : Rules[i].act \in 1 .. Reset
<1> DEFINE M == Len(Rules)
           E == [pat : Seq(Byte), act : 1 .. Reset]
           hits == {j \in DOMAIN Rules : Occurs(Rules[j].pat, bytes)}
           A == [n \in 1 .. M |-> IF Occurs(Rules[n].pat, bytes) THEN Rules[n].act ELSE NoMatch]
           B(g, n) == IF n = 0 THEN NoMatch
                      ELSE IF g[n - 1] >= ScanBlock \/ ~Occurs(Rules[n].pat, bytes) \/ Rules[n].act <= g[n - 1] THEN g[n - 1]
                      ELSE Rules[n].act
           Is(g) == g = [n \in 0 .. M |-> B(g, n)]
           R == CHOOSE g : Is(g)
           H == [n \in 1 .. M |-> [r \in ScanVerdict |-> IF r >= ScanBlock \/ A[n] <= r THEN r ELSE A[n]]]
<1>1. M \in Nat /\ DOMAIN Rules = 1 .. M /\ \A n \in 1 .. M : Rules[n].act \in 1 .. Reset
  <2>1. Rules \in Seq(E)
    BY ScanAssumption
  <2>2. M \in Nat /\ DOMAIN Rules = 1 .. M /\ \A n \in 1 .. M : Rules[n] \in E
    <3> HIDE DEF E
    <3> QED BY <2>1
  <2> QED BY <2>2
<1>2. DlpScan(bytes) = R[M]
  BY DEF DlpScan
<1>3. /\ NoMatch \in ScanVerdict
      /\ \A n \in 1 .. M : /\ A[n] \in ScanVerdict /\ A[n] = IF Occurs(Rules[n].pat, bytes) THEN Rules[n].act ELSE NoMatch
                           /\ \A r \in ScanVerdict : A[n] <= r <=> ~Occurs(Rules[n].pat, bytes) \/ Rules[n].act <= r
                           /\ A[n] = NoMatch <=> ~Occurs(Rules[n].pat, bytes)
  BY <1>1 DEF NoMatch, Reset, ScanVerdict
<1> HIDE DEF M
<1>4. H \in [1 .. M -> [ScanVerdict -> ScanVerdict]] /\ A \in [1 .. M -> ScanVerdict]
  <2>1. A \in [1 .. M -> ScanVerdict]
    BY <1>3
  <2> HIDE DEF A
  <2> QED BY <1>3, <2>1
<1>5. \E g : Is(g)
  <2>1. PICK f \in StepRuns(ScanVerdict, NoMatch, M, H) : TRUE
    <3> HIDE DEF H, A, B
    <3>1. M \in Nat /\ NoMatch \in ScanVerdict
      BY <1>1, <1>3
    <3>2. H \in [1 .. M -> [ScanVerdict -> ScanVerdict]]
      BY <1>4
    <3> QED BY <3>1, <3>2, StepsExist
  <2>2. f \in [0 .. M -> ScanVerdict] /\ \A n \in 0 .. M : f[n] = B(f, n)
    <3> HIDE DEF A
    <3>1. f \in [0 .. M -> ScanVerdict] /\ f[0] = NoMatch /\ \A n \in 1 .. M : f[n] = H[n][f[n - 1]]
      <4> HIDE DEF H
      <4> QED BY <2>1 DEF StepRuns
    <3>2. \A n \in 0 .. M : n # 0 => n \in 1 .. M /\ f[n - 1] \in ScanVerdict
      BY <1>1, <3>1
    <3>3. \A n \in 1 .. M : f[n] = IF f[n - 1] >= ScanBlock \/ A[n] <= f[n - 1] THEN f[n - 1] ELSE A[n]
      <4>1. \A n \in 1 .. M : n \in 0 .. M /\ n # 0
        BY <1>1
      <4> QED BY <3>1, <3>2, <4>1
    <3> QED BY <1>3, <3>1, <3>2, <3>3
  <2>3. Is(f)
    <3> HIDE DEF B, H
    <3> QED BY <2>1, <2>2
  <2> QED BY <2>3
<1>6. Is(R)
  <2> HIDE DEF Is
  <2> QED BY <1>5
<1> HIDE DEF R
<1> DEFINE Rule(n) == R[n] = IF R[n - 1] >= ScanBlock \/ A[n] <= R[n - 1] THEN R[n - 1] ELSE A[n]
           S == {n \in 0 .. M : R[n] \in ScanVerdict /\ (n # 0 => Rule(n))}
<1>7. R[0] = NoMatch /\ \A n \in 1 .. M : R[n] = B(R, n)
  <2>1. \A n \in 0 .. M : R[n] = B(R, n)
    <3> HIDE DEF B
    <3> QED BY <1>6
  <2>2. 0 \in 0 .. M /\ \A n \in 1 .. M : n \in 0 .. M /\ n # 0
    BY <1>1
  <2> QED BY <2>1, <2>2
<1> HIDE DEF A
<1>8. 0 \in S
  BY <1>1, <1>3, <1>7
<1>9. ASSUME NEW n \in Nat, n \in S, n < M PROVE n + 1 \in S
  <2>1. n + 1 \in 1 .. M /\ (n + 1) - 1 = n /\ n + 1 \in 0 .. M /\ n + 1 # 0
    BY <1>1, <1>9
  <2>2. R[n + 1] = B(R, n + 1) /\ R[n] \in ScanVerdict
    BY <1>7, <1>9, <2>1
  <2>3. R[n + 1] = IF R[n] >= ScanBlock \/ A[n + 1] <= R[n] THEN R[n] ELSE A[n + 1]
    BY <1>3, <2>1, <2>2
  <2>4. R[n + 1] \in ScanVerdict
    BY <1>3, <2>1, <2>2, <2>3
  <2> QED BY <2>1, <2>3, <2>4
<1>10. \A n \in 1 .. M : Rule(n)
  <2> HIDE DEF S, Rule
  <2>1. \A n \in 0 .. M : n \in S
    BY <1>1, <1>8, <1>9, Inducts
  <2>2. \A n \in 1 .. M : n \in 0 .. M /\ n # 0
    BY <1>1
  <2> QED BY <2>1, <2>2 DEF S
<1>11. /\ R[M] \in ScanVerdict
       /\ R[M] >= ScanBlock <=> NoMatch >= ScanBlock \/ \E n \in 1 .. M : A[n] >= ScanBlock
       /\ R[M] = NoMatch <=> NoMatch = NoMatch /\ \A n \in 1 .. M : A[n] = NoMatch
  <2>1. A \in [1 .. M -> ScanVerdict] /\ NoMatch \in ScanVerdict /\ R[0] = NoMatch
    BY <1>3, <1>4, <1>7
  <2>2. \A n \in 1 .. M : R[n] = IF R[n - 1] >= ScanBlock \/ A[n] <= R[n - 1] THEN R[n - 1] ELSE A[n]
    BY <1>10
  <2> HIDE DEF Is, H, B, A, S, Rule
  <2>3. M \in Nat
    BY <1>1
  <2> QED BY <2>1, <2>2, <2>3, ScanRaises
<1>12. ~(NoMatch >= ScanBlock)
  BY DEF NoMatch, ScanBlock
<1>13. (\E n \in 1 .. M : A[n] >= ScanBlock) <=> \E i \in hits : Rules[i].act >= ScanBlock
  BY <1>1, <1>3, <1>12
<1>14. (\A n \in 1 .. M : A[n] = NoMatch) <=> hits = {}
  BY <1>1, <1>3
<1> HIDE DEF R, A, B, H, Is
<1> QED BY <1>1, <1>2, <1>11, <1>12, <1>13, <1>14

LEMMA SubSeqGrows ==
  ASSUME NEW w \in Seq(Byte), NEW bytes \in Seq(Byte)
  PROVE  /\ w \o SubSeq(bytes, 1, 0) = w /\ w \o SubSeq(bytes, 1, Len(bytes)) = w \o bytes
         /\ \A n \in 0 .. Len(bytes) : w \o SubSeq(bytes, 1, n) \in Seq(Byte)
         /\ \A n \in 1 .. Len(bytes) :
              bytes[n] \in Byte /\ w \o SubSeq(bytes, 1, n) = Append(w \o SubSeq(bytes, 1, n - 1), bytes[n])
<1> DEFINE M == Len(bytes)
           P(n) == SubSeq(bytes, 1, n)
<1>1. M \in Nat /\ \A n \in 1 .. M : bytes[n] \in Byte
  OBVIOUS
<1>2. ASSUME NEW n \in 0 .. M PROVE P(n) \in Seq(Byte) /\ Len(P(n)) = n /\ \A k \in 1 .. n : P(n)[k] = bytes[k]
  <2>1. \A k \in 1 .. n : bytes[k] \in Byte
    BY <1>1
  <2> HIDE DEF M
  <2> QED BY <2>1, SubSeqProperties
<1>3. w \o P(0) = w
  <2>1. P(0) = <<>>
    <3>1. P(0) \in Seq(Byte) /\ Len(P(0)) = 0
      BY <1>1, <1>2
    <3> HIDE DEF P
    <3> QED BY <3>1
  <2> HIDE DEF P
  <2> QED BY <2>1, ConcatEmptySeq
<1>4. P(M) = bytes
  BY SubSeqFull
<1>5. ASSUME NEW n \in 0 .. M PROVE w \o P(n) \in Seq(Byte)
  <2> HIDE DEF P, M
  <2> QED BY <1>2, ConcatProperties
<1>6. ASSUME NEW n \in 1 .. M PROVE w \o P(n) = Append(w \o P(n - 1), bytes[n])
  <2> DEFINE p == P(n)
             q == P(n - 1)
             r == w \o p
             s == w \o q
             a == Append(s, bytes[n])
             m == Len(w)
  <2>0. n \in 0 .. M /\ n - 1 \in 0 .. M /\ n \in Nat /\ bytes[n] \in Byte /\ m \in Nat
    BY <1>1
  <2>1. p \in Seq(Byte) /\ Len(p) = n /\ \A k \in 1 .. n : p[k] = bytes[k]
    <3> HIDE DEF P, M
    <3> QED BY <1>2, <2>0
  <2>2. q \in Seq(Byte) /\ Len(q) = n - 1 /\ \A k \in 1 .. n - 1 : q[k] = bytes[k]
    <3> HIDE DEF P, M
    <3> QED BY <1>2, <2>0
  <2> HIDE DEF p, q, P
  <2>3. r \in Seq(Byte) /\ Len(r) = m + n /\ \A k \in 1 .. m + n : r[k] = IF k <= m THEN w[k] ELSE p[k - m]
    BY <2>1, ConcatProperties
  <2>4. s \in Seq(Byte) /\ Len(s) = m + (n - 1) /\ \A k \in 1 .. m + (n - 1) : s[k] = IF k <= m THEN w[k] ELSE q[k - m]
    <3>1. s \in Seq(Byte) /\ Len(s) = m + Len(q) /\ \A k \in 1 .. m + Len(q) : s[k] = IF k <= m THEN w[k] ELSE q[k - m]
      BY <2>2, ConcatProperties
    <3> HIDE DEF s, m
    <3> QED BY <2>2, <3>1
  <2> HIDE DEF r, s, m
  <2>5. a \in Seq(Byte) /\ Len(a) = Len(s) + 1 /\ a[Len(s) + 1] = bytes[n] /\ \A k \in 1 .. Len(s) : a[k] = s[k]
    BY <2>0, <2>4, AppendProperties
  <2> HIDE DEF a
  <2>6. ASSUME NEW k \in 1 .. m + n PROVE r[k] = a[k]
    <3>0. Len(s) = m + (n - 1)
      BY <2>4
    <3>1. CASE k = m + n
      <4>1. ~(k <= m) /\ k - m = n /\ n \in 1 .. n /\ Len(s) + 1 = k
        BY <2>0, <3>0, <3>1
      <4> QED BY <2>1, <2>3, <2>5, <4>1
    <3>2. CASE k # m + n
      <4>0. k \in 1 .. m + (n - 1)
        BY <2>0, <3>2
      <4>1. k \in 1 .. Len(s) /\ k \in 1 .. m + (n - 1)
        BY <3>0, <4>0
      <4>2. ~(k <= m) => k - m \in 1 .. n - 1 /\ k - m \in 1 .. n
        BY <2>0, <4>1
      <4>3. a[k] = IF k <= m THEN w[k] ELSE q[k - m]
        BY <2>4, <2>5, <4>1
      <4>4. r[k] = IF k <= m THEN w[k] ELSE p[k - m]
        BY <2>3
      <4> QED BY <2>1, <2>2, <4>2, <4>3, <4>4
    <3> QED BY <3>1, <3>2
  <2>7. Len(a) = m + n
    BY <2>0, <2>4, <2>5
  <2>8. r = a
    BY <2>3, <2>5, <2>6, <2>7, SeqEqual
  <2> QED BY <2>8 DEF r, a, s, p, q
<1> QED BY <1>1, <1>3, <1>4, <1>5, <1>6

\* A byte scanned in a state that stands for the bytes so far.
LEMMA ScanByte ==
  ASSUME NEW x \in States, NEW b \in Byte
  PROVE  /\ ScanTable[<<x, b>>] = LongestIn(Append(x, b)) /\ ScanTable[<<x, b>>] \in States
         /\ ScanOut[ScanTable[<<x, b>>]] \in Seq(DOMAIN Sigs)
         /\ \A w \in Seq(Byte) : ScanLongest(w, x) =>
              /\ ScanLongest(Append(w, b), ScanTable[<<x, b>>])
              /\ ScanIds(ScanOut[ScanTable[<<x, b>>]]) = {i \in DOMAIN Sigs : EndsWith(Append(w, b), Sigs[i].pat)}
<1> DEFINE s == ScanTable[<<x, b>>]
<1>0. b # Eps
  BY ScanAssumption DEF Eps
<1>1. s = LongestIn(Append(x, b))
  <2>1. s = ScanStep(x, b)
    BY ScanTableIs
  <2> QED BY <1>0, <2>1 DEF ScanStep
<1>2. ASSUME NEW w \in Seq(Byte) PROVE Append(w, b) \in Seq(Byte)
  BY AppendProperties
<1> HIDE DEF s
<1>3. s \in States
  <2> DEFINE a == Append(x, b)
  <2>1. a \in Seq(Byte)
    BY <1>2, ScanStates
  <2> HIDE DEF a
  <2> QED BY <1>1, <2>1, LongestExists DEF ScanLongest, a
<1>4. ScanOut[s] \in Seq(DOMAIN Sigs)
  BY <1>3, ScanOutIs
<1>5. ASSUME NEW w \in Seq(Byte), ScanLongest(w, x)
      PROVE  /\ ScanLongest(Append(w, b), s)
             /\ ScanIds(ScanOut[s]) = {i \in DOMAIN Sigs : EndsWith(Append(w, b), Sigs[i].pat)}
  <2> DEFINE a == Append(w, b)
  <2>1. a \in Seq(Byte) /\ s = LongestIn(a)
    BY <1>1, <1>2, <1>5, LongestAppend
  <2> HIDE DEF a
  <2>2. ScanLongest(a, s)
    BY <2>1, LongestExists
  <2>3. \A i \in DOMAIN Sigs : EndsWith(a, Sigs[i].pat) <=> EndsWith(s, Sigs[i].pat)
    BY <2>1, <2>2, ScanStates, LongestEnds
  <2>4. ScanIds(ScanOut[s]) = {i \in DOMAIN Sigs : EndsWith(s, Sigs[i].pat)}
    BY <1>3, ScanOutIs
  <2>5. ScanIds(ScanOut[s]) = {i \in DOMAIN Sigs : EndsWith(a, Sigs[i].pat)}
    BY <2>3, <2>4
  <2> QED BY <2>2, <2>5 DEF a
<1> QED BY <1>1, <1>3, <1>4, <1>5 DEF s

\* The CTD engine finds the signatures that end in the packet, those that began
\* before it included, and leaves the state that stands for all of its bytes.
LEMMA CtdScanIs ==
  ASSUME NEW w \in Seq(Byte), NEW from, ScanLongest(w, from), NEW bytes \in Seq(Byte)
  PROVE  LET c == CtdScan(from, bytes)
             hits == {i \in DOMAIN Sigs : \E n \in 1 .. Len(bytes) : EndsWith(w \o SubSeq(bytes, 1, n), Sigs[i].pat)}
         IN  /\ c.at \in States /\ c.worst \in ScanVerdict
             /\ c.worst < ScanBlock => ScanLongest(w \o bytes, c.at)
             /\ c.worst >= ScanBlock <=> \E i \in hits : Sigs[i].act >= ScanBlock
             /\ c.worst = NoMatch <=> hits = {}
<1> DEFINE M == Len(bytes)
           St == [at : States, worst : ScanVerdict]
           Step(x, b) == IF x.worst >= ScanBlock THEN x
                         ELSE [at |-> ScanTable[<<x.at, b>>], worst |-> ScanRaise(x.worst, ScanOut[ScanTable[<<x.at, b>>]])]
           B(g, n) == IF n = 0 THEN [at |-> from, worst |-> NoMatch] ELSE Step(g[n - 1], bytes[n])
           Is(g) == g = [n \in 0 .. M |-> B(g, n)]
           R == CHOOSE g : Is(g)
           H == [n \in 1 .. M |-> [x \in St |-> Step(x, bytes[n])]]
           a == [at |-> from, worst |-> NoMatch]
           w_(n) == w \o SubSeq(bytes, 1, n)
           Hit(n) == {i \in DOMAIN Sigs : EndsWith(w_(n), Sigs[i].pat)}
<1>1. M \in Nat /\ \A n \in 1 .. M : bytes[n] \in Byte
  OBVIOUS
<1>2. CtdScan(from, bytes) = R[M]
  BY DEF CtdScan
<1>3. a \in St
  BY DEF ScanLongest, ScanVerdict, NoMatch, Reset
<1>4. ASSUME NEW x \in St, NEW b \in Byte PROVE Step(x, b) \in St
  <2>1. x.at \in States /\ x.worst \in ScanVerdict
    OBVIOUS
  <2>2. ScanTable[<<x.at, b>>] \in States /\ ScanRaise(x.worst, ScanOut[ScanTable[<<x.at, b>>]]) \in ScanVerdict
    BY <2>1, ScanByte, ScanRaiseIs
  <2> QED BY <2>2
<1> HIDE DEF St, M, a, Step
<1>5. H \in [1 .. M -> [St -> St]]
  BY <1>1, <1>4
<1>6. \E g : Is(g)
  <2>1. PICK f \in StepRuns(St, a, M, H) : TRUE
    <3> HIDE DEF H
    <3> QED BY <1>1, <1>3, <1>5, StepsExist
  <2>2. f \in [0 .. M -> St] /\ \A n \in 0 .. M : f[n] = B(f, n)
    <3>1. f \in [0 .. M -> St] /\ f[0] = a /\ \A n \in 1 .. M : f[n] = H[n][f[n - 1]]
      <4> HIDE DEF H
      <4> QED BY <2>1 DEF StepRuns
    <3>2. \A n \in 0 .. M : n # 0 => n \in 1 .. M /\ f[n - 1] \in St
      BY <1>1, <3>1
    <3> QED BY <3>1, <3>2 DEF a
  <2>3. Is(f)
    <3> HIDE DEF B, H
    <3> QED BY <2>2
  <2> QED BY <2>3
<1>7. Is(R)
  <2> HIDE DEF Is
  <2> QED BY <1>6
<1> HIDE DEF R
<1>8. R[0] = a /\ \A n \in 1 .. M : R[n] = Step(R[n - 1], bytes[n])
  <2>1. \A n \in 0 .. M : R[n] = B(R, n)
    <3> HIDE DEF B
    <3> QED BY <1>7
  <2>2. 0 \in 0 .. M /\ \A n \in 1 .. M : n \in 0 .. M /\ n # 0
    BY <1>1
  <2> QED BY <2>1, <2>2 DEF a
<1> HIDE DEF B, Is, H
<1>9. /\ w_(0) = w /\ w_(M) = w \o bytes
      /\ \A n \in 0 .. M : w_(n) \in Seq(Byte)
      /\ \A n \in 1 .. M : w_(n) = Append(w_(n - 1), bytes[n])
  BY SubSeqGrows DEF M
<1> HIDE DEF w_
<1> DEFINE Q(n) == /\ R[n] \in St
                   /\ R[n].worst < ScanBlock => ScanLongest(w_(n), R[n].at)
                   /\ R[n].worst >= ScanBlock <=> \E k \in 1 .. n : \E i \in Hit(k) : Sigs[i].act >= ScanBlock
                   /\ R[n].worst = NoMatch <=> \A k \in 1 .. n : Hit(k) = {}
           S == {n \in 0 .. M : Q(n)}
<1>10. 0 \in S
  <2>1. R[0].at = from /\ R[0].worst = NoMatch
    BY <1>8 DEF a
  <2>2. ~(NoMatch >= ScanBlock)
    BY DEF NoMatch, ScanBlock
  <2>3. \A k \in 1 .. 0 : FALSE
    OBVIOUS
  <2>4. Q(0)
    <3> HIDE DEF Hit
    <3> QED BY <1>3, <1>8, <1>9, <2>1, <2>2, <2>3
  <2> HIDE DEF Q
  <2> QED BY <1>1, <2>4
<1>11. ASSUME NEW n \in Nat, n \in S, n < M PROVE n + 1 \in S
  <2> DEFINE x == R[n]
             b == bytes[n + 1]
             y == R[n + 1]
             v == w_(n)
             z == w_(n + 1)
             h == Hit(n + 1)
  <2>1. n + 1 \in 1 .. M /\ (n + 1) - 1 = n /\ n + 1 \in 0 .. M /\ n \in 0 .. M
    BY <1>1, <1>11
  <2>2. y = Step(x, b) /\ b \in Byte /\ z = Append(v, b) /\ v \in Seq(Byte)
    <3>1. y = Step(R[(n + 1) - 1], b) /\ z = Append(w_((n + 1) - 1), b)
      BY <1>8, <1>9, <2>1
    <3> QED BY <1>1, <1>9, <2>1, <3>1
  <2>3. Q(n)
    BY <1>11
  <2>4. x \in St /\ y \in St
    BY <1>4, <2>2, <2>3
  <2>5. n + 1 \in 1 .. n + 1 /\ (\A k \in 1 .. n : k \in 1 .. n + 1) /\ \A k \in 1 .. n + 1 : k \in 1 .. n \/ k = n + 1
    BY <1>11
  <2>6. CASE x.worst >= ScanBlock
    <3>1. y = x
      BY <2>2, <2>6 DEF Step
    <3>2. ~(x.worst < ScanBlock) /\ x.worst # NoMatch
      BY <2>4, <2>6 DEF St, ScanVerdict, NoMatch, ScanBlock, Reset
    <3> HIDE DEF Hit
    <3>3. (\E k \in 1 .. n + 1 : \E i \in Hit(k) : Sigs[i].act >= ScanBlock)
      BY <2>3, <2>5, <2>6
    <3>4. ~ \A k \in 1 .. n + 1 : Hit(k) = {}
      BY <2>3, <2>5, <3>2
    <3> QED BY <2>1, <2>4, <2>6, <3>1, <3>2, <3>3, <3>4
  <2>7. CASE ~(x.worst >= ScanBlock)
    <3> DEFINE s == ScanTable[<<x.at, b>>]
               ids == ScanOut[s]
    <3>1. x.at \in States /\ x.worst \in ScanVerdict /\ x.worst < ScanBlock
      BY <2>4, <2>7 DEF St, ScanVerdict, NoMatch, ScanBlock, Reset
    <3>2. y.at = s /\ y.worst = ScanRaise(x.worst, ids)
      BY <2>2, <2>7 DEF Step
    <3>3. ScanLongest(v, x.at)
      BY <2>3, <3>1
    <3>4. ids \in Seq(DOMAIN Sigs) /\ ScanLongest(z, s) /\ ScanIds(ids) = h
      <4>1. h = {i \in DOMAIN Sigs : EndsWith(z, Sigs[i].pat)}
        OBVIOUS
      <4> HIDE DEF x, b, v, z, h
      <4>2. ScanLongest(z, s) /\ ScanIds(ids) = {i \in DOMAIN Sigs : EndsWith(z, Sigs[i].pat)}
        <5>1. /\ ScanLongest(Append(v, b), s)
              /\ ScanIds(ids) = {i \in DOMAIN Sigs : EndsWith(Append(v, b), Sigs[i].pat)}
          BY <2>2, <3>1, <3>3, ScanByte
        <5> HIDE DEF s, ids
        <5> QED BY <2>2, <5>1
      <4>3. ids \in Seq(DOMAIN Sigs)
        BY <2>2, <3>1, ScanByte
      <4> HIDE DEF s, ids
      <4> QED BY <4>1, <4>2, <4>3
    <3> HIDE DEF s, ids
    <3>5. /\ y.worst >= ScanBlock <=> x.worst >= ScanBlock \/ \E i \in h : Sigs[i].act >= ScanBlock
          /\ y.worst = NoMatch <=> x.worst = NoMatch /\ h = {}
      <4> HIDE DEF x, y, h
      <4> QED BY <3>1, <3>2, <3>4, ScanRaiseIs
    <3> HIDE DEF Hit
    <3>6. y.worst >= ScanBlock <=> \E k \in 1 .. n + 1 : \E i \in Hit(k) : Sigs[i].act >= ScanBlock
      BY <2>3, <2>5, <3>5
    <3>7. y.worst = NoMatch <=> \A k \in 1 .. n + 1 : Hit(k) = {}
      BY <2>3, <2>5, <3>5
    <3> QED BY <2>1, <2>4, <3>2, <3>4, <3>6, <3>7
  <2> QED BY <2>6, <2>7
<1>12. Q(M)
  <2> HIDE DEF S
  <2>1. \A n \in 0 .. M : n \in S
    BY <1>1, <1>10, <1>11, Inducts
  <2>2. M \in S
    BY <1>1, <2>1
  <2> HIDE DEF Q
  <2> QED BY <2>2 DEF S
<1> DEFINE hits == {i \in DOMAIN Sigs : \E n \in 1 .. M : EndsWith(w_(n), Sigs[i].pat)}
<1>13. (\E k \in 1 .. M : \E i \in Hit(k) : Sigs[i].act >= ScanBlock) <=> \E i \in hits : Sigs[i].act >= ScanBlock
  OBVIOUS
<1>14. (\A k \in 1 .. M : Hit(k) = {}) <=> hits = {}
  OBVIOUS
<1>15. R[M].at \in States /\ R[M].worst \in ScanVerdict
  BY <1>12 DEF St
<1> HIDE DEF Hit
<1>16. /\ R[M].worst < ScanBlock => ScanLongest(w \o bytes, R[M].at)
       /\ R[M].worst >= ScanBlock <=> \E i \in hits : Sigs[i].act >= ScanBlock
       /\ R[M].worst = NoMatch <=> hits = {}
  <2> HIDE DEF hits
  <2> QED BY <1>9, <1>12, <1>13, <1>14
<1> QED BY <1>2, <1>15, <1>16 DEF w_, M

LEMMA RecentEnds ==
  ASSUME NEW w \in Seq(Byte)
  PROVE  /\ Recent(w) \in Seq(Byte)
         /\ \A u : ScanLongest(w, u) => ScanLongest(Recent(w), u)
<1> DEFINE r == Recent(w)
           m == Len(w) - MaxPat
<1>0. MaxPat \in Nat /\ Len(w) \in Nat
  BY ScanAssumption
<1>1. r \in Seq(Byte) /\ EndsWith(w, r) /\ (r = w \/ Len(r) = MaxPat)
  <2>1. CASE Len(w) <= MaxPat
    BY <2>1, EndsSelf DEF Recent
  <2>2. CASE ~(Len(w) <= MaxPat)
    <3>1. r = SubSeq(w, m + 1, Len(w)) /\ m \in Nat /\ m + 1 \in Int /\ Len(w) - (m + 1) + 1 = MaxPat
      BY <1>0, <2>2 DEF Recent
    <3> HIDE DEF r
    <3>2. \A k \in m + 1 .. Len(w) : w[k] \in Byte
      BY <1>0, <3>1
    <3>3. r \in Seq(Byte) /\ Len(r) = MaxPat
      <4>1. SubSeq(w, m + 1, Len(w)) \in Seq(Byte)
        BY <1>0, <3>1, <3>2, SubSeqProperties
      <4>2. Len(SubSeq(w, m + 1, Len(w))) = IF m + 1 <= Len(w) THEN Len(w) - (m + 1) + 1 ELSE 0
        BY <1>0, <3>1, <3>2, SubSeqProperties
      <4>3. m + 1 > Len(w) => MaxPat = 0
        BY <1>0
      <4> HIDE DEF m
      <4> QED BY <1>0, <3>1, <4>1, <4>2, <4>3
    <3>4. EndsWith(w, r)
      BY <1>0, <2>2, <3>1, <3>3 DEF EndsWith
    <3> QED BY <3>3, <3>4
  <2> QED BY <2>1, <2>2
<1> HIDE DEF r
<1>2. ASSUME NEW p \in States, EndsWith(w, p) PROVE EndsWith(r, p)
  <2>1. p \in Seq(Byte) /\ Len(p) \in Nat /\ Len(p) <= MaxPat
    BY <1>0, ScanStates
  <2>2. r # w => Len(p) <= Len(r)
    BY <1>1, <2>1
  <2> QED BY <1>1, <1>2, <2>1, <2>2, EndsNest
<1>3. ASSUME NEW p \in States, EndsWith(r, p) PROVE EndsWith(w, p)
  BY <1>1, <1>3, ScanStates, EndsTrans
<1>4. ASSUME NEW u, ScanLongest(w, u) PROVE ScanLongest(r, u)
  BY <1>2, <1>3, <1>4 DEF ScanLongest
<1> QED BY <1>1, <1>4 DEF r

LEMMA UptoType == ASSUME NEW s \in Seq(Byte) PROVE Upto(s, ScanMax) \in Seq(Byte)
<1> DEFINE n == IF ScanMax < Len(s) THEN ScanMax ELSE Len(s)
<1>1. n \in 0 .. Len(s)
  BY ScanAssumption
<1> HIDE DEF n
<1>2. \A k \in 1 .. n : s[k] \in Byte
  BY <1>1
<1>3. SubSeq(s, 1, n) \in Seq(Byte)
  BY <1>1, <1>2, SubSeqProperties
<1> QED BY <1>3 DEF Upto, n

\* Unless the flow is convicted, the state of each direction is the longest that
\* its bytes end with: the last MaxPat of them are enough to tell.
ScanInv ==
  /\ scanState \in [ScanDir -> States]
  /\ stream \in [ScanDir -> Seq(Byte)]
  /\ scanLast.verdict \in ScanVerdict
  /\ VerdictExact
  /\ scanLast.verdict < ScanBlock => \A d \in ScanDir : ScanLongest(stream[d], scanState[d])

LEMMA LongestStart == ScanLongest(<<>>, <<>>) /\ <<>> \in Seq(Byte) /\ <<>> \in States
<1>1. <<>> \in Seq(Byte) /\ <<>> \in States
  BY ScanStates
<1> QED BY <1>1, LongestExists, LongestOfNone

LEMMA ScanFreshInv ==
  ASSUME scanState \in [ScanDir -> States], stream \in [ScanDir -> Seq(Byte)],
         \A d \in ScanDir : scanState[d] = <<>> /\ stream[d] = <<>>,
         scanLast = [verdict |-> NoMatch, found |-> {}]
  PROVE  ScanInv
<1>1. \A d \in ScanDir : ScanLongest(stream[d], scanState[d])
  BY LongestStart
<1>2. scanLast.verdict \in ScanVerdict /\ VerdictExact
  BY DEF ScanVerdict, VerdictExact, NoMatch, ScanBlock, Reset
<1> QED BY <1>1, <1>2 DEF ScanInv

LEMMA ScanInitInv == ScanInit => ScanInv
<1> SUFFICES ASSUME ScanInit PROVE ScanInv
  OBVIOUS
<1>1. /\ scanState \in [ScanDir -> States] /\ stream \in [ScanDir -> Seq(Byte)]
      /\ \A d \in ScanDir : scanState[d] = <<>> /\ stream[d] = <<>>
  BY LongestStart DEF ScanInit
<1> QED BY <1>1, ScanFreshInv DEF ScanInit

LEMMA ScanEvictInv == ASSUME Evict PROVE ScanInv'
<1>1. /\ scanState' \in [ScanDir -> States] /\ stream' \in [ScanDir -> Seq(Byte)]
      /\ \A d \in ScanDir : scanState'[d] = <<>> /\ stream'[d] = <<>>
  BY LongestStart DEF Evict, ScanFresh
<1>2. \A d \in ScanDir : ScanLongest(stream'[d], scanState'[d])
  BY <1>1, LongestStart
<1>3. scanLast' = [verdict |-> NoMatch, found |-> {}]
  BY DEF Evict, ScanFresh
<1>4. scanLast'.verdict \in ScanVerdict /\ VerdictExact'
  BY <1>3 DEF ScanVerdict, VerdictExact, NoMatch, ScanBlock, Reset
<1> QED BY <1>1, <1>2, <1>4 DEF ScanInv, ScanLongest, States, EndsWith

LEMMA ScanInspectInv ==
  ASSUME ScanInv, NEW d \in ScanDir, NEW bytes \in Payload, ScanInspect(d, bytes)
  PROVE  ScanInv'
<1> DEFINE clip == Upto(bytes, ScanMax)
           cut == Len(bytes) > ScanMax
           dlp == IF "dlp" \in on THEN DlpScan(clip) ELSE NoMatch
           runs == dlp < ScanBlock
           c == CtdScan(scanState[d], clip)
           w == stream[d]
           sigHits == {i \in DOMAIN Sigs : \E n \in 1 .. Len(clip) : EndsWith(w \o SubSeq(clip, 1, n), Sigs[i].pat)}
           ruleHits == {j \in DOMAIN Rules : "dlp" \in on /\ Occurs(Rules[j].pat, clip)}
           verdict == IF runs /\ c.worst > dlp THEN c.worst ELSE dlp
           found == {Sigs[i].act : i \in sigHits} \cup {Rules[i].act : i \in ruleHits}
<1>1. /\ scanLast.verdict < ScanBlock
      /\ scanState' = IF runs THEN [scanState EXCEPT ![d] = Carry(c, cut)] ELSE scanState
      /\ stream' = [stream EXCEPT ![d] = IF cut THEN <<>> ELSE Recent(w \o clip)]
      /\ scanLast' = [verdict |-> verdict, found |-> found]
  BY DEF ScanInspect, ScanSide, Found
<1>2. clip \in Seq(Byte) /\ w \in Seq(Byte) /\ ScanLongest(w, scanState[d])
  <2>1. bytes \in Seq(Byte)
    BY ScanAssumption
  <2> QED BY <1>1, <2>1, UptoType DEF ScanInv
<1> HIDE DEF clip, cut
<1>3. /\ c.at \in States /\ c.worst \in ScanVerdict
      /\ c.worst < ScanBlock => ScanLongest(w \o clip, c.at)
      /\ c.worst >= ScanBlock <=> \E i \in sigHits : Sigs[i].act >= ScanBlock
      /\ c.worst = NoMatch <=> sigHits = {}
  <2> HIDE DEF w
  <2> QED BY <1>2, CtdScanIs
<1>4. /\ dlp \in ScanVerdict
      /\ dlp >= ScanBlock <=> \E i \in ruleHits : Rules[i].act >= ScanBlock
      /\ dlp = NoMatch <=> ruleHits = {}
      /\ \A i \in ruleHits : Rules[i].act \in 1 .. Reset
  <2>1. CASE "dlp" \in on
    BY <2>1, DlpScanIs
  <2>2. CASE "dlp" \notin on
    <3>1. ruleHits = {} /\ dlp = NoMatch
      BY <2>2
    <3>2. NoMatch \in ScanVerdict /\ ~(NoMatch >= ScanBlock)
      BY DEF NoMatch, ScanBlock, ScanVerdict, Reset
    <3> HIDE DEF ruleHits, dlp
    <3> QED BY <3>1, <3>2
  <2> QED BY <2>1, <2>2
<1>5. w \o clip \in Seq(Byte)
  BY <1>2, ConcatProperties
<1> HIDE DEF c, dlp, sigHits, ruleHits, w
<1>6. /\ verdict \in ScanVerdict
      /\ verdict >= ScanBlock <=> dlp >= ScanBlock \/ c.worst >= ScanBlock
      /\ verdict = NoMatch <=> dlp = NoMatch /\ c.worst = NoMatch
      /\ verdict < ScanBlock => runs /\ c.worst < ScanBlock
  BY <1>3, <1>4 DEF ScanVerdict, NoMatch, ScanBlock, Reset
<1>7. /\ (\E x \in found : x >= ScanBlock) <=> (\E i \in sigHits : Sigs[i].act >= ScanBlock) \/ \E i \in ruleHits : Rules[i].act >= ScanBlock
      /\ found = {} <=> sigHits = {} /\ ruleHits = {}
  OBVIOUS
<1> HIDE DEF verdict, found
<1>8. scanLast'.verdict = verdict /\ scanLast'.found = found
  BY <1>1
<1>9. VerdictExact'
  BY <1>3, <1>4, <1>6, <1>7, <1>8 DEF VerdictExact
<1>10. Carry(c, cut) \in States /\ (IF cut THEN <<>> ELSE Recent(w \o clip)) \in Seq(Byte)
  BY <1>3, <1>5, LongestStart, RecentEnds DEF Carry
<1>11. scanState' \in [ScanDir -> States] /\ stream' \in [ScanDir -> Seq(Byte)]
  <2> HIDE DEF runs
  <2> QED BY <1>1, <1>10 DEF ScanInv
<1>12. ASSUME verdict < ScanBlock, NEW e \in ScanDir PROVE ScanLongest(stream'[e], scanState'[e])
  <2>1. runs /\ ScanLongest(w \o clip, c.at)
    BY <1>3, <1>6, <1>12
  <2> HIDE DEF runs
  <2>2. CASE e = d
    <3>1. scanState'[d] = Carry(c, cut) /\ stream'[d] = IF cut THEN <<>> ELSE Recent(w \o clip)
      BY <1>1, <2>1 DEF ScanInv
    <3>2. CASE cut
      BY <2>2, <3>1, <3>2, LongestStart DEF Carry
    <3>3. CASE ~cut
      BY <1>5, <2>1, <2>2, <3>1, <3>3, RecentEnds DEF Carry
    <3> QED BY <3>2, <3>3
  <2>3. CASE e # d
    <3>1. scanState'[e] = scanState[e] /\ stream'[e] = stream[e]
      BY <1>1, <2>1, <2>3 DEF ScanInv
    <3>2. ScanLongest(stream[e], scanState[e])
      BY <1>1 DEF ScanInv
    <3> QED BY <3>1, <3>2
  <2> QED BY <2>2, <2>3
<1> QED BY <1>6, <1>8, <1>9, <1>11, <1>12 DEF ScanInv, ScanLongest, States, EndsWith

LEMMA ScanNextInv == ScanInv /\ [ScanNext]_scanVars => ScanInv'
<1> SUFFICES ASSUME ScanInv, [ScanNext]_scanVars PROVE ScanInv'
  OBVIOUS
<1>1. CASE ScanNext
  BY <1>1, ScanInspectInv, ScanEvictInv DEF ScanNext
<1>2. CASE UNCHANGED scanVars
  BY <1>2 DEF scanVars, ScanInv, VerdictExact, ScanLongest, States, EndsWith
<1> QED BY <1>1, <1>2

(* The streamed verdict is the one of the whole stream, for every set of    *)
(* signatures and rules and for every division of the bytes into packets:  *)
(* the table that dp_aho_compile builds and dp_aho_scan follows loses no    *)
(* match, finds none that is not there, and the state kept per direction    *)
(* stands for all that the direction has carried without a gap.             *)
THEOREM InspectionSafe == ScanSpec => []ScanSafe
<1>1. ScanInv => ScanSafe
  <2> SUFFICES ASSUME ScanInv PROVE ScanSafe
    OBVIOUS
  <2>1. ScanTypeOK
    BY DEF ScanInv, ScanTypeOK, ScanVerdict
  <2>2. StateLongest
    BY DEF ScanInv, StateLongest, ScanLongest
  <2> QED BY <2>1, <2>2 DEF ScanInv, ScanSafe
<1> QED BY <1>1, ScanInitInv, ScanNextInv, PTL DEF ScanSpec
=============================================================================
