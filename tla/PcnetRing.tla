----------------------------- MODULE PcnetRing -----------------------------
(* One ring of the MP <-> CP virtual Ethernet (ffn_pcnet): head, tail and N  *)
(* slots in CP memory, which the MP reaches over PCIe.  "h2o": the MP        *)
(* produces; "o2h": the CP does.  Each access to the shared memory is a step.*)
(*                                                                           *)
(* The MP owns the region: on every start it rewrites the header and zeroes  *)
(* head and tail, and leaves the slots as they are, while the CP may be in   *)
(* the middle of an operation.  Each end is one loop, so the operations of   *)
(* an end on the other ring are not visible here.                            *)
(*                                                                           *)
(* A frame is its serial number; all frames are of one length, which is the  *)
(* hard case for the CRC.  0 is a payload or a CRC that belongs to none.     *)
EXTENDS Integers, Sequences

CONSTANTS
  PcnN,          \* NSLOTS, a power of two
  PcnFrames,     \* frames the producer's TAP delivers (bound)
  PcnForeign,    \* frames of the CP that the MP's filter refuses
  PcnMaxFaults   \* restarts of either end and garbled slots (bound)

ASSUME PcnAssumption == PcnN \in Nat \ {0} /\ PcnFrames \in Nat /\ PcnMaxFaults \in Nat

PcnSlots == 0 .. PcnN - 1
PcnFrame == 0 .. PcnFrames
PcnLen == {"zero", "good", "bad"}   \* "bad": more than a slot holds

VARIABLES
  pcnRing,                        \* which ring this is
  pcnHead, pcnTail, pcnSlot,      \* the ring
  pcnMagic, pcnGeometry, pcnOctUp,   \* the header
  pcnP,      \* the producer: pc, the head and the frame it works on
  pcnC,      \* the consumer: pc, the head and tail it read, its copy of the slot
  pcnSent, pcnGot,                \* frames taken from one TAP and written to the other
  pcnRaced,                       \* the ring was zeroed under a running CP
  pcnFaults

pcnMem == <<pcnHead, pcnTail, pcnSlot, pcnMagic, pcnGeometry, pcnOctUp>>
pcnLog == <<pcnSent, pcnGot>>
pcnCount == <<pcnRaced, pcnFaults>>
pcnVars == <<pcnRing, pcnMem, pcnP, pcnC, pcnLog, pcnCount>>

\* A stored index becomes an offset only masked.
PcnMask(i) == i % PcnN
PcnNoSlot == [len |-> "zero", crc |-> 0, data |-> 0]
IdleP(pc) == [pc |-> pc, h |-> 0, f |-> 0]
IdleC(pc) == [pc |-> pc, h |-> 0, t |-> 0, s |-> PcnNoSlot]
PcnHostProduces == pcnRing = "h2o"

\* ---- the producer: put() and ring_put() -------------------------------------

PcnTap ==
  /\ pcnP.pc = "loop" /\ pcnSent < PcnFrames
  /\ pcnSent' = pcnSent + 1
  /\ pcnP' = [pc |-> "head", h |-> 0, f |-> pcnSent + 1]
  /\ UNCHANGED <<pcnRing, pcnMem, pcnC, pcnGot, pcnCount>>
PutHead ==
  /\ pcnP.pc = "head" /\ pcnP' = [pcnP EXCEPT !.pc = "tail", !.h = PcnMask(pcnHead)]
  /\ UNCHANGED <<pcnRing, pcnMem, pcnC, pcnLog, pcnCount>>
\* Mutant: the ring is full only when the indices meet.
PutTailFull ==
  /\ pcnP.pc = "tail"
  /\ pcnP' = IF pcnP.h + 1 = PcnMask(pcnTail) THEN IdleP("loop") ELSE [pcnP EXCEPT !.pc = "data"]
  /\ UNCHANGED <<pcnRing, pcnMem, pcnC, pcnLog, pcnCount>>
\* A full ring: the frame is dropped.
PutTail ==
  /\ pcnP.pc = "tail"
  /\ pcnP' = IF PcnMask(pcnP.h + 1) = PcnMask(pcnTail) THEN IdleP("loop") ELSE [pcnP EXCEPT !.pc = "data"]
  /\ UNCHANGED <<pcnRing, pcnMem, pcnC, pcnLog, pcnCount>>
\* Payload, then CRC, then the length, then head.
PutSlot ==
  \/ /\ pcnP.pc = "data" /\ pcnP' = [pcnP EXCEPT !.pc = "crc"]
     /\ pcnSlot' = [pcnSlot EXCEPT ![pcnP.h].data = pcnP.f]
     /\ UNCHANGED <<pcnRing, pcnHead, pcnTail, pcnMagic, pcnGeometry, pcnOctUp, pcnC, pcnLog, pcnCount>>
  \/ /\ pcnP.pc = "crc" /\ pcnP' = [pcnP EXCEPT !.pc = "len"]
     /\ pcnSlot' = [pcnSlot EXCEPT ![pcnP.h].crc = pcnP.f]
     /\ UNCHANGED <<pcnRing, pcnHead, pcnTail, pcnMagic, pcnGeometry, pcnOctUp, pcnC, pcnLog, pcnCount>>
  \/ /\ pcnP.pc = "len" /\ pcnP' = [pcnP EXCEPT !.pc = "advance"]
     /\ pcnSlot' = [pcnSlot EXCEPT ![pcnP.h].len = "good"]
     /\ UNCHANGED <<pcnRing, pcnHead, pcnTail, pcnMagic, pcnGeometry, pcnOctUp, pcnC, pcnLog, pcnCount>>
PutAdvance ==
  /\ pcnP.pc = "advance" /\ pcnP' = IdleP("loop") /\ pcnHead' = PcnMask(pcnP.h + 1)
  /\ UNCHANGED <<pcnRing, pcnTail, pcnSlot, pcnMagic, pcnGeometry, pcnOctUp, pcnC, pcnLog, pcnCount>>

\* ---- the consumer: get() and ring_get() ---------------------------------------

GetHead ==
  /\ pcnC.pc = "loop" /\ pcnC' = [pcnC EXCEPT !.pc = "tail", !.h = PcnMask(pcnHead)]
  /\ UNCHANGED <<pcnRing, pcnMem, pcnP, pcnLog, pcnCount>>
GetTail ==
  /\ pcnC.pc = "tail"
  /\ pcnC' = IF pcnC.h = PcnMask(pcnTail) THEN IdleC("loop") ELSE [pcnC EXCEPT !.pc = "len", !.h = 0, !.t = PcnMask(pcnTail)]
  /\ UNCHANGED <<pcnRing, pcnMem, pcnP, pcnLog, pcnCount>>
\* The length is read once.  The MP releases a bad slot without reading it; the
\* CP reads the CRC first and finds it does not match.
GetLen ==
  /\ pcnC.pc = "len"
  /\ LET n == pcnSlot[pcnC.t].len
     IN  pcnC' = [pcnC EXCEPT !.pc = IF n = "good" THEN "first" ELSE "clear", !.s.len = n]
  /\ UNCHANGED <<pcnRing, pcnMem, pcnP, pcnLog, pcnCount>>
\* The CP copies the payload and then reads the CRC, the MP the other way round.
GetBody ==
  /\ pcnC.pc \in {"first", "second"}
  /\ pcnC' = [pcnC EXCEPT !.pc = IF pcnC.pc = "first" THEN "second" ELSE "clear",
                          !.s = IF (pcnC.pc = "first") = PcnHostProduces THEN [@ EXCEPT !.data = pcnSlot[pcnC.t].data]
                                ELSE [@ EXCEPT !.crc = pcnSlot[pcnC.t].crc]]
  /\ UNCHANGED <<pcnRing, pcnMem, pcnP, pcnLog, pcnCount>>
\* Good or bad, the slot is released before anything is made of it.
GetClear ==
  /\ pcnC.pc = "clear" /\ pcnC' = [pcnC EXCEPT !.pc = "advance"]
  /\ pcnSlot' = [pcnSlot EXCEPT ![pcnC.t].len = "zero"]
  /\ UNCHANGED <<pcnRing, pcnHead, pcnTail, pcnMagic, pcnGeometry, pcnOctUp, pcnP, pcnLog, pcnCount>>
PcnPasses(s) == s.len = "good" /\ s.data = s.crc /\ s.data # 0
\* ingress_ok: what the MP hands to its kernel.
Admitted(f) == PcnHostProduces \/ f \notin PcnForeign
GetAdvance ==
  /\ pcnC.pc = "advance" /\ pcnC' = IdleC("loop") /\ pcnTail' = PcnMask(pcnC.t + 1)
  /\ pcnGot' = IF PcnPasses(pcnC.s) /\ Admitted(pcnC.s.data) THEN Append(pcnGot, pcnC.s.data) ELSE pcnGot
  /\ UNCHANGED <<pcnRing, pcnHead, pcnSlot, pcnMagic, pcnGeometry, pcnOctUp, pcnP, pcnSent, pcnCount>>

\* ---- starting an end ---------------------------------------------------------------

HostPc == IF PcnHostProduces THEN pcnP.pc ELSE pcnC.pc
OctPc == IF PcnHostProduces THEN pcnC.pc ELSE pcnP.pc
HostGo(pc) == IF PcnHostProduces THEN pcnP' = IdleP(pc) /\ UNCHANGED pcnC ELSE pcnC' = IdleC(pc) /\ UNCHANGED pcnP
OctGo(pc) == IF PcnHostProduces THEN pcnC' = IdleC(pc) /\ UNCHANGED pcnP ELSE pcnP' = IdleP(pc) /\ UNCHANGED pcnC

\* host_init: the header is one copy of 36 bytes, magic first; then the ring.
HostInit ==
  \/ /\ HostPc = "magic" /\ HostGo("geometry") /\ pcnMagic' = TRUE
     /\ UNCHANGED <<pcnRing, pcnHead, pcnTail, pcnSlot, pcnGeometry, pcnOctUp, pcnLog, pcnCount>>
  \/ /\ HostPc = "geometry" /\ HostGo("zero") /\ pcnGeometry' = TRUE /\ pcnOctUp' = FALSE
     /\ UNCHANGED <<pcnRing, pcnHead, pcnTail, pcnSlot, pcnMagic, pcnLog, pcnCount>>
  \/ /\ HostPc = "zero" /\ HostGo("loop") /\ pcnHead' = 0 /\ pcnTail' = 0
     /\ pcnRaced' = (pcnRaced \/ OctPc \notin {"off", "wait", "check"})
     /\ UNCHANGED <<pcnRing, pcnSlot, pcnMagic, pcnGeometry, pcnOctUp, pcnLog, pcnFaults>>
HostStart ==
  /\ HostPc = "off" /\ HostGo("magic") /\ UNCHANGED <<pcnRing, pcnMem, pcnLog, pcnCount>>

\* The CP waits for the magic, at most a minute; then it wants its own geometry.
OctWait ==
  \/ /\ OctPc = "wait" /\ pcnMagic /\ OctGo("check") /\ UNCHANGED <<pcnRing, pcnMem, pcnLog, pcnCount>>
  \/ /\ OctPc = "wait" /\ ~pcnMagic /\ OctGo("off") /\ UNCHANGED <<pcnRing, pcnMem, pcnLog, pcnCount>>
OctAttach ==
  /\ OctPc = "check" /\ OctGo(IF pcnGeometry THEN "loop" ELSE "off")
  /\ pcnOctUp' = (pcnOctUp \/ pcnGeometry)
  /\ UNCHANGED <<pcnRing, pcnHead, pcnTail, pcnSlot, pcnMagic, pcnGeometry, pcnLog, pcnCount>>
OctStart == OctPc = "off" /\ OctGo("wait") /\ UNCHANGED <<pcnRing, pcnMem, pcnLog, pcnCount>>

\* ---- faults --------------------------------------------------------------------------

PcnDies(pc) == pc # "off" /\ pcnFaults < PcnMaxFaults /\ pcnFaults' = pcnFaults + 1
HostDies == PcnDies(HostPc) /\ HostGo("off") /\ UNCHANGED <<pcnRing, pcnMem, pcnLog, pcnRaced>>
OctDies == PcnDies(OctPc) /\ OctGo("off") /\ UNCHANGED <<pcnRing, pcnMem, pcnLog, pcnRaced>>
Garble(i) ==
  /\ pcnFaults < PcnMaxFaults /\ pcnFaults' = pcnFaults + 1
  /\ \E s \in {[pcnSlot[i] EXCEPT !.len = "zero"], [pcnSlot[i] EXCEPT !.len = "bad"], [pcnSlot[i] EXCEPT !.data = 0]} :
       pcnSlot' = [pcnSlot EXCEPT ![i] = s]
  /\ UNCHANGED <<pcnRing, pcnHead, pcnTail, pcnMagic, pcnGeometry, pcnOctUp, pcnP, pcnC, pcnLog, pcnRaced>>

\* The memory holds anything before the MP's first start.
PcnInit ==
  /\ pcnRing \in {"h2o", "o2h"}
  /\ pcnHead \in PcnSlots /\ pcnTail \in PcnSlots
  /\ \E n \in PcnLen : pcnSlot = [i \in PcnSlots |-> [PcnNoSlot EXCEPT !.len = n]]
  /\ pcnMagic = FALSE /\ pcnGeometry = FALSE /\ pcnOctUp = FALSE
  /\ pcnP = IdleP("off") /\ pcnC = IdleC("off")
  /\ pcnSent = 0 /\ pcnGot = <<>> /\ pcnRaced = FALSE /\ pcnFaults = 0

Producing == PcnTap \/ PutHead \/ PutTail \/ PutSlot \/ PutAdvance
Consuming == GetHead \/ GetTail \/ GetLen \/ GetBody \/ GetClear \/ GetAdvance
PcnNext ==
  \/ Producing \/ Consuming \/ HostInit \/ HostStart \/ OctWait \/ OctAttach \/ OctStart
  \/ HostDies \/ OctDies \/ (\E i \in PcnSlots : Garble(i))
PcnSpec == PcnInit /\ [][PcnNext]_pcnVars /\ WF_pcnVars(Producing) /\ WF_pcnVars(Consuming) /\ WF_pcnVars(HostInit)

-----------------------------------------------------------------------------
PcnTypeOK ==
  /\ pcnHead \in PcnSlots /\ pcnTail \in PcnSlots
  /\ \A i \in PcnSlots : pcnSlot[i] \in [len : PcnLen, crc : PcnFrame, data : PcnFrame]
  /\ pcnP.h \in PcnSlots /\ pcnC.t \in PcnSlots
  /\ pcnOctUp => pcnMagic

\* What is written to a TAP was read from the other one, whatever the memory
\* held, whoever restarted and whichever slot was garbled.
PcnIntact == \A k \in 1 .. Len(pcnGot) : pcnGot[k] \in 1 .. pcnSent

\* A frame is written to the TAP once, and frames keep their order, through any
\* death of either end, unless the MP zeroes the ring while the CP is at work
\* on it: then a slot that the CP has half read may be read again.
PcnInOrder == ~pcnRaced => \A k \in 2 .. Len(pcnGot) : pcnGot[k - 1] < pcnGot[k]

\* "One corrupt slot can never wedge the ring": a running consumer empties it.
Unwedged == []<>(pcnC.pc \notin {"loop", "tail", "len", "first", "second", "clear", "advance"} \/ pcnHead = pcnTail)

\* Frames come out whole and in order, up to a restart under a live ring.
PcnSafe ==
  /\ PcnTypeOK
  /\ PcnIntact
  /\ PcnInOrder
=============================================================================
