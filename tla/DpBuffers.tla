------------------------------ MODULE DpBuffers ------------------------------
(***************************************************************************)
(* Packet buffers of the forwarder on OCTEON III (ffn_dp_io_octeon.c and   *)
(* ffn_dp_io_octeon3.c): who owns the data and the work entry of each      *)
(* packet, between PKI, the cores and PKO, through one poll after another. *)
(*                                                                         *)
(* A work entry is part of its packet's data buffer or an allocation of    *)
(* its own (wqe_separate).  The poll loop is dp_poll_once's.               *)
(***************************************************************************)
EXTENDS FfnCommon, Integers, FiniteSets, Sequences

CONSTANTS
  Core, InitCore,  \* the core mask, and the core that does the global set-up
  Buffer, Ports,   \* buffers of the aura; 1 .. nports
  BufBurst, Passes    \* OCT_BURST = OCT_TX_DEPTH, OCT_TX_PASSES

\* Work entries as the cores queue them.
BufWork == [b : Buffer, separate : BOOLEAN, disp : {"held", "queued", "freed"}]
ASSUME BufAssumption ==
  /\ BufBurst \in Nat \ {0} /\ Passes \in Nat
  /\ IsFiniteSet(Ports) /\ Ports # {} /\ Ports = 1 .. Cardinality(Ports)
  /\ InitCore \in Core /\ {"pool", "pko"} \cap Core = {}
  /\ None \notin BufWork

VARIABLES
  holder,   \* own[b]: who has the data and the work entry of b: "pool", a core or "pko"
  core,  \* the state of each core, see Idle
  ready, \* the descriptor queues of the ports are known
  bad    \* something was freed by a core that did not own it

bufVars == <<holder, core, ready, bad>>

BufIdle == [pc |-> "init", inflight |-> <<>>, at |-> 1, examined |-> 0,
            txq |-> [p \in Ports |-> <<>>], pass |-> 1, port |-> 1, sent |-> None]
Pool == [data |-> "pool", wqe |-> "pool"]
InPool == {b \in Buffer : holder[b] = Pool}

\* The frees of data_free and wqe_free by core c, on the owners o.
FreeData(o, c, w) == [o EXCEPT ![w.b] = IF w.separate THEN [@ EXCEPT !.data = "pool"] ELSE Pool]
FreeWqe(o, c, w) == IF w.separate THEN [o EXCEPT ![w.b] = [@ EXCEPT !.wqe = "pool"]] ELSE o
\* Something is freed that c does not have: compare before and after.
Wrong(o, c, then) ==
  \E b \in Buffer : \E f \in {"data", "wqe"} : then[b][f] # o[b][f] /\ o[b][f] # c

\* oct_dispose_free of work entry w by core c.
Dispose(o, c, w) == FreeWqe(FreeData(o, c, w), c, w)

----------------------------------------------------------------------------
BufInit ==
  /\ holder = [b \in Buffer |-> Pool]
  /\ core = [c \in Core |-> BufIdle]
  /\ ready = FALSE /\ bad = FALSE

\* cvmx3_hw_init: the init core does the global set-up, then every core waits
\* for all the others before it looks up the queues of its ports.
HwInit(c) ==
  /\ core[c].pc = "init"
  /\ core' = [core EXCEPT ![c].pc = "barrier"]
  /\ ready' = (ready \/ c = InitCore)
  /\ UNCHANGED <<holder, bad>>
Barrier(c) ==
  /\ core[c].pc = "barrier" /\ \A d \in Core : core[d].pc # "init"
  /\ core' = [core EXCEPT ![c].pc = "rx"]
  /\ UNCHANGED <<holder, ready, bad>>

\* oct_io_rx and work_get: a packet in buffer b.  One that cannot be forwarded
\* (receive error, several segments, unknown port) is released at once; the
\* loop ends with a full burst or after examining Burst packets.
Rx(c, b, separate, good) ==
  LET w == [b |-> b, separate |-> separate, disp |-> "held"]
      s == core[c]
      got == [holder EXCEPT ![b] = [data |-> c, wqe |-> c]]
      s2 == [s EXCEPT !.examined = @ + 1, !.inflight = IF good THEN Append(@, w) ELSE @]
      full == s2.examined = BufBurst \/ Len(s2.inflight) = BufBurst
  IN  /\ s.pc = "rx" /\ b \in InPool
      /\ holder' = IF good THEN got ELSE Dispose(got, c, w)
      /\ bad' = (bad \/ (~good /\ Wrong(got, c, holder')))
      /\ core' = [core EXCEPT ![c] = IF full THEN [s2 EXCEPT !.pc = "process"] ELSE s2]
      /\ UNCHANGED ready
RxNone(c) ==
  /\ core[c].pc = "rx"
  /\ core' = [core EXCEPT ![c].pc = "process"]
  /\ UNCHANGED <<holder, ready, bad>>

\* The rest of dp_poll_once for one packet.  A frame the forwarder built goes
\* out in a buffer of its own; then the packet is queued for an egress port, or
\* released: by oct_io_tx when it has nowhere to go or the queue is full, by
\* to_local, by to_offload, or by free_pkt as a drop.
Emit(b) == IF b = None THEN holder ELSE [holder EXCEPT ![b] = [data |-> "pko", wqe |-> "pko"]]
FreePkt(c, o, w) == IF w.disp = "held" THEN Dispose(o, c, w) ELSE o
BufProcess(c, out, b) ==
  LET s == core[c]
      w == s.inflight[s.at]
      queued == out \in Ports /\ Len(s.txq[out]) < BufBurst
      w2 == [w EXCEPT !.disp = IF queued THEN "queued" ELSE "held"]
  IN  /\ s.pc = "process" /\ s.at <= Len(s.inflight)
      /\ holder' = FreePkt(c, Emit(b), w2)
      /\ bad' = (bad \/ Wrong(Emit(b), c, holder'))
      /\ core' = [core EXCEPT ![c] =
           [s EXCEPT !.at = s.at + 1, !.inflight[s.at] = [w EXCEPT !.disp = IF queued THEN "queued" ELSE "freed"],
                     !.txq = IF queued THEN [s.txq EXCEPT ![out] = Append(s.txq[out], w)] ELSE s.txq]]
      /\ UNCHANGED ready
ProcessEnd(c) ==
  /\ core[c].pc = "process" /\ core[c].at > Len(core[c].inflight)
  /\ core' = [core EXCEPT ![c] = [BufIdle EXCEPT !.pc = "flush", !.txq = core[c].txq]]
  /\ UNCHANGED <<holder, ready, bad>>

\* oct_tx_flush, where it stands: the next port, and the next pass after the last.
BufAdvance(s) ==
  IF s.port < Cardinality(Ports) THEN [s EXCEPT !.port = @ + 1]
  ELSE [s EXCEPT !.port = 1, !.pass = @ + 1]
\* pkt_send accepts the head of the queue: from now on PKO frees the data,
\* while the core still has a work entry of its own to free.
SendOk(c) ==
  LET s == core[c]
      w == Head(s.txq[s.port])
  IN  /\ s.pc = "flush" /\ s.pass <= Passes /\ s.sent = None /\ s.txq[s.port] # <<>>
      /\ holder' = [holder EXCEPT ![w.b] = IF w.separate THEN [@ EXCEPT !.data = "pko"]
                                           ELSE [data |-> "pko", wqe |-> "pko"]]
      /\ bad' = (bad \/ holder[w.b].data # c)
      /\ core' = [core EXCEPT ![c].sent = w, ![c].txq[s.port] = Tail(@)]
      /\ UNCHANGED ready
\* oct_dispose_sent
DisposeSent(c) ==
  LET s == core[c]
  IN  /\ s.pc = "flush" /\ s.sent # None
      /\ holder' = FreeWqe(holder, c, s.sent)
      /\ bad' = (bad \/ Wrong(holder, c, holder'))
      /\ core' = [core EXCEPT ![c].sent = None]
      /\ UNCHANGED ready
SendRejected(c) ==
  LET s == core[c]
      w == Head(s.txq[s.port])
  IN  /\ s.pc = "flush" /\ s.pass <= Passes /\ s.sent = None /\ s.txq[s.port] # <<>>
      /\ holder' = Dispose(holder, c, w)
      /\ bad' = (bad \/ Wrong(holder, c, holder'))
      /\ core' = [core EXCEPT ![c].txq[s.port] = Tail(@)]
      /\ UNCHANGED ready
\* The queue is busy, or empty: on to the next port.
SendNext(c) ==
  /\ core[c].pc = "flush" /\ core[c].pass <= Passes /\ core[c].sent = None
  /\ core' = [core EXCEPT ![c] = BufAdvance(@)]
  /\ UNCHANGED <<holder, ready, bad>>

\* What is left after the last pass is dropped, and the next poll begins.
\* Mutant: what is left stays for the next poll.
ExpireNot(c) ==
  /\ core[c].pc = "flush" /\ core[c].pass > Passes /\ core[c].sent = None
  /\ core' = [core EXCEPT ![c] = [BufIdle EXCEPT !.pc = "rx", !.txq = core[c].txq]]
  /\ UNCHANGED <<holder, ready, bad>>
BufExpire(c) ==
  LET s == core[c]
      left == UNION {{s.txq[p][i] : i \in DOMAIN s.txq[p]} : p \in Ports}
      Gone(w) == Dispose(holder, c, w)[w.b]
  IN  /\ s.pc = "flush" /\ s.pass > Passes /\ s.sent = None
      /\ holder' = [b \in Buffer |-> IF \E w \in left : w.b = b
                                     THEN Gone(CHOOSE w \in left : w.b = b) ELSE holder[b]]
      /\ bad' = (bad \/ Wrong(holder, c, holder'))
      /\ core' = [core EXCEPT ![c] = [BufIdle EXCEPT !.pc = "rx"]]
      /\ UNCHANGED ready

\* PKO has put a packet on the wire and returns its data to the aura.
PkoDone(b) ==
  /\ holder[b].data = "pko"
  /\ holder' = [holder EXCEPT ![b] = [data |-> "pool", wqe |-> IF @.wqe = "pko" THEN "pool" ELSE @.wqe]]
  /\ UNCHANGED <<core, ready, bad>>

Step(c) ==
  \/ HwInit(c) \/ Barrier(c)
  \/ \E b \in Buffer, separate, good \in BOOLEAN : Rx(c, b, separate, good)
  \/ RxNone(c)
  \/ \E out \in Ports \cup {None}, b \in InPool \cup {None} : BufProcess(c, out, b)
  \/ ProcessEnd(c)
  \/ SendOk(c) \/ DisposeSent(c) \/ SendRejected(c) \/ SendNext(c) \/ BufExpire(c)
BufNext ==
  \/ \E c \in Core : Step(c)
  \/ \E b \in Buffer : PkoDone(b)

\* Each core polls for ever, and the hardware finishes what it was given.
BufFairness ==
  /\ \A c \in Core : WF_bufVars(Step(c))
  /\ \A b \in Buffer : WF_bufVars(PkoDone(b))
BufSpec == BufInit /\ [][BufNext]_bufVars /\ BufFairness

----------------------------------------------------------------------------
BufOwner == Core \cup {"pool", "pko"}
BufTypeOK ==
  /\ holder \in [Buffer -> [data : BufOwner, wqe : BufOwner]]
  /\ \A c \in Core : /\ core[c].pc \in {"init", "barrier", "rx", "process", "flush"}
                     /\ Len(core[c].inflight) <= BufBurst /\ core[c].examined <= BufBurst
                     /\ \A p \in Ports : Len(core[c].txq[p]) <= BufBurst

\* "Nothing is ever released twice": no core frees data or a work entry that the
\* pool, PKO or, after the buffer was filled again, another core has.
NeverFreedTwice == ~bad

\* A buffer a core has is in exactly one of its queues, so that it will be
\* released; "software backlog cannot survive a poll".
NothingLeaks ==
  \A c \in Core, b \in Buffer :
    holder[b].data = c =>
         LET s == core[c]
             waiting == {i \in s.at .. Len(s.inflight) : s.inflight[i].b = b /\ s.inflight[i].disp = "held"}
             queued == {q \in Ports \X (1 .. BufBurst) : q[2] <= Len(s.txq[q[1]]) /\ s.txq[q[1]][q[2]].b = b}
         IN  Cardinality(waiting) + Cardinality(queued) = 1 /\ (s.pc = "rx" => queued = {})

\* "The other cores read the table before the init core has filled it in": a
\* core takes packets only once the queues of its ports are known.
QueuesResolved == \A c \in Core : core[c].pc \notin {"init", "barrier"} => ready

\* Every buffer has one holder, and none is lost or freed twice.
BufSafe ==
  /\ BufTypeOK
  /\ NeverFreedTwice
  /\ NothingLeaks
  /\ QueuesResolved
=============================================================================
