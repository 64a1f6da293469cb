--------------------------- MODULE ForwarderProofs ---------------------------
(***************************************************************************)
(* The data-plane forwarder: its port table for any commands and any ring  *)
(* of link changes, the buffers of any number of cores, and the flow cache *)
(* for any table, window, hash and policy; and the routing and neighbour   *)
(* tables, for any hash, any prefixes and any addresses.                   *)
(***************************************************************************)
EXTENDS DpPorts, DpBuffers, DpFlow, DpFib, DpNeigh, FfnLemmas, FiniteSetTheorems, TLAPS

-----------------------------------------------------------------------------
(***************************************************************************)
(* The port table of the forwarder.                                        *)
(***************************************************************************)

\* The table, the MACs and the rings have their types.
PrtShape ==
  /\ table \in [PrtPort -> PrtEntry \cup {None}]
  /\ lmac \in [PrtPort -> BOOLEAN]
  /\ link \in [PrtPort -> BOOLEAN]
  /\ cmds \in Seq(Commands) /\ Len(cmds) <= Descs
\* What is in the ring of events is a sequence that fits.
PrtEvents == (\E S : evts \in Seq(S)) /\ Len(evts) <= Descs
PrtInv == PrtShape /\ PrtEvents /\ OnlyDataUp /\ RunIsDriven

\* A push keeps the ring of events within its descriptors: what does not fit
\* is lost (ffn_dp_ring_push).
LEMMA PrtPushFits ==
  ASSUME PrtEvents, NEW es, \E T : es \in Seq(T), Push(es)
  PROVE  PrtEvents'
PROOF
<1>1. PICK S : evts \in Seq(S)
  BY DEF PrtEvents
<1>2. PICK T : es \in Seq(T)
  OBVIOUS
<1> DEFINE n == IF Len(es) < Descs - Len(evts) THEN Len(es) ELSE Descs - Len(evts)
<1>3. n \in 0 .. Len(es) /\ Len(evts) + n <= Descs
  BY <1>1, <1>2, PrtAssumption DEF PrtEvents
<1>4. SubSeq(es, 1, n) \in Seq(T) /\ Len(SubSeq(es, 1, n)) = n
  BY <1>2, <1>3
<1>5. evts \in Seq(S \cup T) /\ SubSeq(es, 1, n) \in Seq(S \cup T)
  BY <1>1, <1>4
<1>6. evts' = evts \o SubSeq(es, 1, n)
  BY DEF Push
<1> HIDE DEF n
<1>7. evts' \in Seq(S \cup T) /\ Len(evts') = Len(evts) + n
  BY <1>4, <1>5, <1>6
<1> QED
  BY <1>3, <1>7 DEF PrtEvents

\* A list of one event is a sequence.
LEMMA PrtOneEvent == ASSUME NEW e PROVE \E T : <<e>> \in Seq(T)
PROOF
<1>1. <<e>> \in Seq({e})
  OBVIOUS
<1> QED
  BY <1>1

\* What lists the configured ports one by one is a sequence.
LEMMA PrtListing ==
  ASSUME PrtShape, NEW es, es = [i \in DOMAIN Known |-> es[i]]
  PROVE  \E T : es \in Seq(T)
PROOF
<1> DEFINE K == {p \in PrtPort : table[p] # None}
           n == Cardinality(K)
<1>1. IsFiniteSet(PrtPort)
  BY FS_Interval, PrtAssumption DEF PrtPort
<1>2. IsFiniteSet(K)
  BY <1>1, FS_Subset
<1>3. n \in Nat
  BY <1>2, FS_CardinalityType
<1>4. DOMAIN Known = 1 .. n
  BY DEF Known
<1> DEFINE T == {es[i] : i \in 1 .. n}
<1> HIDE DEF n
<1>5. es \in [1 .. n -> T]
  BY <1>4
<1>6. es \in Seq(T)
  BY <1>3, <1>5
<1> QED
  BY <1>6

LEMMA PrtInitInv == PrtInit => PrtInv
PROOF
<1> SUFFICES ASSUME PrtInit PROVE PrtInv
  OBVIOUS
<1>1. PrtShape
  BY PrtAssumption DEF PrtInit, PrtShape
<1>2. PrtEvents
  <2>1. evts \in Seq({}) /\ Len(evts) = 0
    BY DEF PrtInit
  <2> QED
    BY <2>1, PrtAssumption DEF PrtEvents
<1>3. OnlyDataUp /\ RunIsDriven
  BY DEF PrtInit, OnlyDataUp, RunIsDriven
<1> QED
  BY <1>1, <1>2, <1>3 DEF PrtInv

\* What the daemon takes from its ring is a command.
LEMMA PrtTaken ==
  ASSUME PrtShape, cmds # <<>>
  PROVE  Head(cmds) \in Commands /\ Tail(cmds) \in Seq(Commands) /\ Len(Tail(cmds)) <= Descs
PROOF
<1>1. Len(cmds) \in Nat /\ Len(cmds) > 0 /\ Len(cmds) <= Descs
  BY DEF PrtShape
<1>2. Head(cmds) \in Commands /\ Tail(cmds) \in Seq(Commands) /\ Len(Tail(cmds)) = Len(cmds) - 1
  BY DEF PrtShape
<1> QED
  BY <1>1, <1>2, PrtAssumption

\* A port configured anew is powered down (dp_port_config).
LEMMA PrtConfigured ==
  ASSUME PrtInv, NEW c \in Commands, c.op = "config", Config(c), UNCHANGED lmac
  PROVE  /\ table' \in [PrtPort -> PrtEntry \cup {None}]
         /\ OnlyDataUp' /\ RunIsDriven'
PROOF
<1> DEFINE e == [role |-> c.role, has |-> c.has, mgmt |-> c.mgmt, state |-> "powerdown",
                 admin |-> FALSE, up |-> FALSE]
<1>1. c.port \in PrtPort /\ c.role \in PrtRole /\ c.has \in BOOLEAN /\ c.mgmt \in BOOLEAN
  BY PrtAssumption DEF PrtPort
<1>2. e \in PrtEntry
  BY <1>1 DEF PrtEntry
<1>3. ~e.admin /\ e.state = "powerdown" /\ ~e.up
  OBVIOUS
<1>4. table' = [table EXCEPT ![c.port] = e]
  BY DEF Config
<1> HIDE DEF e
<1>5. table' \in [PrtPort -> PrtEntry \cup {None}]
  BY <1>1, <1>2, <1>4 DEF PrtInv, PrtShape
<1>6. \A p \in PrtPort : table'[p] = IF p = c.port THEN e ELSE table[p]
  BY <1>4 DEF PrtInv, PrtShape
<1>7. OnlyDataUp'
  BY <1>3, <1>6 DEF PrtInv, OnlyDataUp
<1>8. RunIsDriven'
  BY <1>3, <1>6 DEF PrtInv, RunIsDriven
<1> QED
  BY <1>5, <1>7, <1>8

\* What dp_port_admin does not refuse it does to a port that may be up, and a
\* port that is then up and has a link has its MAC enabled.
LEMMA PrtAdministered ==
  ASSUME PrtInv, NEW c \in Commands, c.op = "admin", NEW ok \in BOOLEAN,
         ~PrtRefused(table[c.port], c.up), Admin(c, ok)
  PROVE  /\ table' \in [PrtPort -> PrtEntry \cup {None}]
         /\ lmac' \in [PrtPort -> BOOLEAN]
         /\ OnlyDataUp' /\ RunIsDriven'
PROOF
<1> DEFINE e == table[c.port]
           runs == c.up /\ Applied(c.port, e, ok)
           up == IF runs THEN link[c.port] ELSE e.up /\ c.up
           state == IF runs THEN "run" ELSE IF c.up THEN "startup" ELSE "powerdown"
           f == [e EXCEPT !.admin = c.up, !.up = up, !.state = state]
<1>1. c.port \in PrtPort /\ c.up \in BOOLEAN
  BY PrtAssumption DEF PrtPort
<1>2. e \in PrtEntry /\ (c.up => e.role = "data" /\ ~e.mgmt)
  BY <1>1 DEF PrtInv, PrtShape, PrtRefused
<1>3. runs \in BOOLEAN /\ up \in BOOLEAN /\ state \in {"powerdown", "startup", "run"}
  BY <1>1, <1>2 DEF PrtInv, PrtShape, PrtEntry, Applied
<1>4. table' = [table EXCEPT ![c.port] = f] /\ lmac' = [lmac EXCEPT ![c.port] = @ \/ runs]
  BY DEF Admin
<1>5. /\ c.up /\ ~runs => up = e.up
      /\ ~c.up => up = FALSE /\ state = "powerdown" /\ ~runs
      /\ state = "run" => runs
  BY <1>1, <1>2 DEF PrtEntry
<1>6. e.up => lmac[c.port]
  BY <1>1, <1>2 DEF PrtInv, PrtShape, PrtRefused, RunIsDriven
<1> HIDE DEF up, state, runs
<1>7. f \in PrtEntry
  BY <1>1, <1>2, <1>3 DEF PrtEntry
<1>8. f.admin = c.up /\ f.up = up /\ f.state = state /\ f.role = e.role /\ f.mgmt = e.mgmt
  BY <1>2 DEF PrtEntry
<1> HIDE DEF f
<1>9. table' \in [PrtPort -> PrtEntry \cup {None}] /\ lmac' \in [PrtPort -> BOOLEAN]
  BY <1>1, <1>3, <1>4, <1>7 DEF PrtInv, PrtShape
<1>10. \A p \in PrtPort : /\ table'[p] = IF p = c.port THEN f ELSE table[p]
                          /\ lmac'[p] <=> lmac[p] \/ (p = c.port /\ runs)
  BY <1>1, <1>3, <1>4 DEF PrtInv, PrtShape
<1>11. OnlyDataUp'
  BY <1>2, <1>8, <1>10 DEF PrtInv, OnlyDataUp
<1>12. RunIsDriven'
  <2> SUFFICES ASSUME NEW p \in PrtPort, table'[p] # None, table'[p].state = "run" \/ table'[p].up
               PROVE  table'[p].admin /\ lmac'[p]
    BY DEF RunIsDriven
  <2>1. CASE p = c.port
    BY <1>3, <1>5, <1>6, <1>8, <1>10, <2>1
  <2>2. CASE p # c.port
    BY <1>10, <2>2 DEF PrtInv, RunIsDriven
  <2> QED
    BY <2>1, <2>2
<1> QED
  BY <1>9, <1>11, <1>12

LEMMA PrtNextInv == PrtInv /\ [PrtNext]_prtVars => PrtInv'
PROOF
<1> SUFFICES ASSUME PrtInv, [PrtNext]_prtVars PROVE PrtInv'
  OBVIOUS
<1>1. ASSUME NEW c \in Commands, PrtSend(c) PROVE PrtInv'
  <2>1. Len(cmds) \in Nat /\ cmds' \in Seq(Commands) /\ Len(cmds') = Len(cmds) + 1
    BY <1>1 DEF PrtInv, PrtShape, PrtSend
  <2>2. Len(cmds') <= Descs
    BY <1>1, <2>1, PrtAssumption DEF PrtSend
  <2>3. UNCHANGED <<evts, table, lmac, link>>
    BY <1>1 DEF PrtSend
  <2> QED
    BY <2>1, <2>2, <2>3 DEF PrtInv, PrtShape, PrtEvents, OnlyDataUp, RunIsDriven
<1>2. CASE PrtReceive
  <2>1. PICK S : evts \in Seq(S)
    BY DEF PrtInv, PrtEvents
  <2>2. evts # <<>> /\ evts' = Tail(evts) /\ UNCHANGED <<cmds, table, lmac, link>>
    BY <1>2 DEF PrtReceive
  <2>3. evts' \in Seq(S) /\ Len(evts') = Len(evts) - 1 /\ Len(evts) \in Nat
    BY <2>1, <2>2
  <2>4. PrtEvents'
    BY <2>3, PrtAssumption DEF PrtInv, PrtEvents
  <2> QED
    BY <2>2, <2>4 DEF PrtInv, PrtShape, OnlyDataUp, RunIsDriven
<1>3. ASSUME NEW ok \in BOOLEAN, PrtHandle(ok) PROVE PrtInv'
  <2> DEFINE c == Head(cmds)
  <2>1. cmds # <<>> /\ cmds' = Tail(cmds) /\ UNCHANGED link
    BY <1>3 DEF PrtHandle
  <2>2. c \in Commands /\ cmds' \in Seq(Commands) /\ Len(cmds') <= Descs
    BY <2>1, PrtTaken DEF PrtInv
  <2>3. c.op \in {"ping", "bank", "enum", "config", "admin"}
    BY <2>2, PrtAssumption
  <2> HIDE DEF c
  <2> SUFFICES /\ table' \in [PrtPort -> PrtEntry \cup {None}]
               /\ lmac' \in [PrtPort -> BOOLEAN]
               /\ PrtEvents' /\ OnlyDataUp' /\ RunIsDriven'
    BY <2>1, <2>2 DEF PrtInv, PrtShape
  <2>4. CASE UNCHANGED <<table, lmac>> /\ \E es : Push(es) /\ \E T : es \in Seq(T)
    <3>1. PrtEvents'
      BY <2>4, PrtPushFits DEF PrtInv
    <3> QED
      BY <2>4, <3>1 DEF PrtInv, PrtShape, OnlyDataUp, RunIsDriven
  <2>5. CASE c.op = "ping"
    <3>1. Push(<<Evt("pong", None, None)>>) /\ UNCHANGED <<table, lmac>>
      BY <1>3, <2>5 DEF PrtHandle, c
    <3> QED
      BY <2>4, <3>1, PrtOneEvent
  <2>6. CASE c.op = "bank"
    <3>1. PICK e : Push(<<e>>) /\ UNCHANGED <<table, lmac>>
      BY <1>3, <2>6 DEF PrtHandle, c
    <3> QED
      BY <2>4, <3>1, PrtOneEvent
  <2>7. CASE c.op = "enum"
    <3> DEFINE Of(i) == Evt("info", Known[i], Info(table[Known[i]]))
               es == [i \in DOMAIN Known |-> Of(i)]
    <3>1. Push(es) /\ UNCHANGED <<table, lmac>>
      BY <1>3, <2>7 DEF PrtHandle, c
    <3>2. \E T : es \in Seq(T)
      <4>1. es = [i \in DOMAIN Known |-> es[i]]
        OBVIOUS
      <4> HIDE DEF es
      <4> QED
        BY <4>1, PrtListing DEF PrtInv
    <3> QED
      BY <2>4, <3>1, <3>2
  <2>8. CASE c.op = "config"
    <3>1. PICK e : Config(c) /\ Push(<<e>>) /\ UNCHANGED lmac
      BY <1>3, <2>8 DEF PrtHandle, c
    <3>2. PrtEvents'
      BY <3>1, PrtOneEvent, PrtPushFits DEF PrtInv
    <3>3. lmac' \in [PrtPort -> BOOLEAN]
      BY <3>1 DEF PrtInv, PrtShape
    <3> QED
      BY <2>2, <2>8, <3>1, <3>2, <3>3, PrtConfigured
  <2>9. CASE c.op = "admin"
    <3>1. CASE PrtRefused(table[c.port], c.up)
      <4>1. PICK e : Push(<<e>>) /\ UNCHANGED <<table, lmac>>
        BY <1>3, <2>9, <3>1 DEF PrtHandle, c
      <4> QED
        BY <2>4, <4>1, PrtOneEvent
    <3>2. CASE ~PrtRefused(table[c.port], c.up)
      <4>1. PICK e : Admin(c, ok) /\ Push(<<e>>)
        BY <1>3, <2>9, <3>2 DEF PrtHandle, c
      <4>2. PrtEvents'
        BY <4>1, PrtOneEvent, PrtPushFits DEF PrtInv
      <4> QED
        BY <2>2, <2>9, <3>2, <4>1, <4>2, PrtAdministered
    <3> QED
      BY <3>1, <3>2
  <2> QED
    BY <2>3, <2>5, <2>6, <2>7, <2>8, <2>9
<1>4. ASSUME NEW p \in PrtPort, Cable(p) PROVE PrtInv'
  <2>1. link' \in [PrtPort -> BOOLEAN] /\ UNCHANGED <<cmds, evts, table, lmac>>
    BY <1>4 DEF PrtInv, PrtShape, Cable
  <2> QED
    BY <2>1 DEF PrtInv, PrtShape, PrtEvents, OnlyDataUp, RunIsDriven
<1>5. CASE UNCHANGED prtVars
  BY <1>5 DEF prtVars, PrtInv, PrtShape, PrtEvents, OnlyDataUp, RunIsDriven
<1> QED
  BY <1>1, <1>2, <1>3, <1>4, <1>5 DEF PrtNext

\* Only a port with a role and a driver is up: "Never bring a non-data port up
\* as a data port", and none runs "with nothing behind it" (ffn_dp_oct.c,
\* ffn_dp_bgx_octeon3.c), whatever the commands of the management processor and
\* whatever the hardware answers.
THEOREM PrtPortsSafe == PrtSpec => []PrtSafe
PROOF
<1>1. PrtInv => PrtSafe
  BY DEF PrtInv, PrtShape, PrtEvents, PrtSafe, PrtTypeOK
<1> QED
  BY <1>1, PrtInitInv, PrtNextInv, PTL DEF PrtSpec

-----------------------------------------------------------------------------
(* Buffers.  The state of a core and what it says of the buffers the core  *)
(* has: each is in exactly one of its queues.                              *)
BufCore ==
  [pc : {"init", "barrier", "rx", "process", "flush"}, inflight : Seq(BufWork), at : Nat \ {0},
   examined : 0 .. BufBurst, txq : [Ports -> Seq(BufWork)], pass : Nat, port : Ports, sent : BufWork \cup {None}]
BufMine(c) == [data |-> c, wqe |-> c]

\* Where a poll stands, and how much its queues hold.
BufPhase(t) ==
  /\ Len(t.inflight) <= BufBurst
  /\ \A p \in Ports : Len(t.txq[p]) <= BufBurst
  /\ t.pc \in {"init", "barrier", "rx"} => t.at = 1 /\ \A p \in Ports : t.txq[p] = <<>>
  /\ t.pc \in {"init", "barrier", "flush"} => t.inflight = <<>>
  /\ t.pc \in {"init", "barrier"} => t.examined = 0
  /\ t.pc = "rx" => t.examined < BufBurst /\ Len(t.inflight) < BufBurst
  /\ t.pc # "flush" => t.sent = None

\* The places of a core: packets to be processed, packets to be sent.
BufWaits(t) == {i \in 1 .. Len(t.inflight) : t.at <= i}
BufQueued(t, p) == 1 .. Len(t.txq[p])
\* No buffer is in two places of core state t.
BufApart(t) ==
  /\ \A i, j \in BufWaits(t) : t.inflight[i].b = t.inflight[j].b => i = j
  /\ \A p \in Ports : \A i \in BufWaits(t), j \in BufQueued(t, p) : t.inflight[i].b # t.txq[p][j].b
  /\ \A p, q \in Ports : \A i \in BufQueued(t, p), j \in BufQueued(t, q) :
       t.txq[p][i].b = t.txq[q][j].b => p = q /\ i = j
\* What the places say of the owners o, and the owners of the places.
BufOwned(t, c, o) ==
  /\ \A i \in BufWaits(t) : t.inflight[i].disp = "held" /\ o[t.inflight[i].b] = BufMine(c)
  /\ \A p \in Ports : \A j \in BufQueued(t, p) : o[t.txq[p][j].b] = BufMine(c)
  /\ t.sent # None /\ t.sent.separate => o[t.sent.b].wqe = c /\ o[t.sent.b].data # c
BufPlaced(t, c, o) ==
  \A b \in Buffer : o[b].data = c =>
    \/ \E i \in BufWaits(t) : t.inflight[i].b = b
    \/ \E p \in Ports : \E j \in BufQueued(t, p) : t.txq[p][j].b = b
BufHas(t, c, o) == BufPhase(t) /\ BufApart(t) /\ BufOwned(t, c, o) /\ BufPlaced(t, c, o)

BufOwners == [Buffer -> [data : BufOwner, wqe : BufOwner]]
\* The table of queues is there as soon as the init core is past its set-up,
\* for which every core waits.
BufSetUp ==
  /\ core[InitCore].pc # "init" => ready
  /\ \A c \in Core : core[c].pc \notin {"init", "barrier"} => ready
BufInv ==
  /\ holder \in BufOwners /\ core \in [Core -> BufCore] /\ ready \in BOOLEAN
  /\ bad = FALSE /\ BufSetUp
  /\ \A c \in Core : BufHas(core[c], c, holder)

LEMMA BufPlaces ==
  ASSUME NEW t \in BufCore
  PROVE  /\ \A i \in BufWaits(t) : i \in Nat /\ t.inflight[i] \in BufWork /\ t.inflight[i].b \in Buffer
         /\ \A p \in Ports : \A j \in BufQueued(t, p) : t.txq[p][j] \in BufWork /\ t.txq[p][j].b \in Buffer
<1>1. t.inflight \in Seq(BufWork) /\ \A p \in Ports : t.txq[p] \in Seq(BufWork)
  BY DEF BufCore
<1>2. \A w \in BufWork : w.b \in Buffer
  BY DEF BufWork
<1>3. \A i \in BufWaits(t) : i \in Nat /\ t.inflight[i] \in BufWork
  BY <1>1 DEF BufWaits
<1>4. \A p \in Ports : \A j \in BufQueued(t, p) : t.txq[p][j] \in BufWork
  BY <1>1 DEF BufQueued
<1> QED BY <1>2, <1>3, <1>4

\* What core d has stays its own while others take from the pool or give back.
LEMMA BufKept ==
  ASSUME NEW t \in BufCore, NEW d \in Core, NEW o \in BufOwners, NEW o2 \in BufOwners, BufHas(t, d, o),
         \A b \in Buffer : (o2[b].data = d <=> o[b].data = d) /\ (o[b].wqe = d => o2[b].wqe = d)
  PROVE  BufHas(t, d, o2)
<1>1. \A b \in Buffer : o[b] = BufMine(d) => o2[b] = BufMine(d)
  BY DEF BufOwners, BufMine
<1>2. \A i \in BufWaits(t) : t.inflight[i] \in BufWork
  BY DEF BufWaits, BufCore
<1>3. \A p \in Ports : \A j \in BufQueued(t, p) : t.txq[p][j] \in BufWork
  BY DEF BufQueued, BufCore
<1>4. BufOwned(t, d, o2)
  <2>1. t.sent # None => t.sent \in BufWork
    BY DEF BufCore
  <2>2. \A i \in BufWaits(t) : t.inflight[i].disp = "held" /\ o2[t.inflight[i].b] = BufMine(d)
    BY <1>1, <1>2 DEF BufHas, BufOwned, BufWork
  <2>3. \A p \in Ports : \A j \in BufQueued(t, p) : o2[t.txq[p][j].b] = BufMine(d)
    BY <1>1, <1>3 DEF BufHas, BufOwned, BufWork
  <2>4. t.sent # None /\ t.sent.separate => o2[t.sent.b].wqe = d /\ o2[t.sent.b].data # d
    BY <2>1 DEF BufHas, BufOwned, BufWork
  <2> QED BY <2>2, <2>3, <2>4 DEF BufOwned
<1>5. BufPlaced(t, d, o2)
  BY DEF BufHas, BufPlaced
<1> QED BY <1>4, <1>5 DEF BufHas

\* A step of core c that leaves the others their buffers.
LEMMA BufStep ==
  ASSUME BufInv, NEW c \in Core, NEW t \in BufCore, core' = [core EXCEPT ![c] = t],
         holder' \in BufOwners, BufHas(t, c, holder'), bad' = FALSE,
         \A b \in Buffer, d \in Core \ {c} :
           (holder'[b].data = d <=> holder[b].data = d) /\ (holder[b].wqe = d => holder'[b].wqe = d),
         ready' \in BOOLEAN, ready => ready', t.pc \notin {"init", "barrier"} => ready',
         c = InitCore /\ t.pc # "init" => ready'
  PROVE  BufInv'
<1>1. core' \in [Core -> BufCore] /\ core'[c] = t /\ \A d \in Core \ {c} : core'[d] = core[d]
  BY DEF BufInv
<1>2. ASSUME NEW d \in Core PROVE BufHas(core'[d], d, holder')
  <2>1. CASE d = c
    BY <1>1, <2>1
  <2>2. CASE d # c
    <3>1. core[d] \in BufCore /\ holder \in BufOwners /\ BufHas(core[d], d, holder)
      BY DEF BufInv
    <3>2. \A b \in Buffer : (holder'[b].data = d <=> holder[b].data = d) /\ (holder[b].wqe = d => holder'[b].wqe = d)
      BY <2>2
    <3>3. BufHas(core[d], d, holder')
      BY <3>1, <3>2, BufKept
    <3> QED BY <3>3, <1>1, <2>2
  <2> QED BY <2>1, <2>2
<1>3. BufSetUp'
  BY <1>1, BufAssumption DEF BufSetUp, BufInv
<1> QED BY <1>1, <1>2, <1>3 DEF BufInv

LEMMA BufMineIs ==
  ASSUME NEW c \in Core
  PROVE  BufMine(c) # Pool /\ BufMine(c).data = c /\ BufMine(c).wqe = c /\ Pool.data = "pool" /\ Pool.wqe = "pool"
         /\ c # "pool" /\ c # "pko"
BY BufAssumption DEF BufMine, Pool

\* What core c frees is its own: both parts go back to the pool.
LEMMA DisposeIs ==
  ASSUME NEW o \in BufOwners, NEW c \in Core, NEW w \in BufWork, o[w.b] = BufMine(c)
  PROVE  Dispose(o, c, w) = [o EXCEPT ![w.b] = Pool] /\ ~Wrong(o, c, Dispose(o, c, w))
<1>1. w.b \in Buffer /\ o[w.b] = [data |-> c, wqe |-> c]
  BY DEF BufMine, BufWork
<1>2. Dispose(o, c, w) = [o EXCEPT ![w.b] = Pool]
  <2>1. CASE w.separate
    <3> DEFINE f == [o EXCEPT ![w.b] = [data |-> "pool", wqe |-> c]]
    <3>1. [o[w.b] EXCEPT !.data = "pool"] = [data |-> "pool", wqe |-> c]
      BY <1>1
    <3>2. FreeData(o, c, w) = f
      BY <2>1, <3>1 DEF FreeData
    <3>3. f[w.b] = [data |-> "pool", wqe |-> c]
      BY <1>1 DEF BufOwners
    <3>4. [f[w.b] EXCEPT !.wqe = "pool"] = [data |-> "pool", wqe |-> "pool"]
      BY <3>3
    <3>5. FreeWqe(f, c, w) = [f EXCEPT ![w.b] = [data |-> "pool", wqe |-> "pool"]]
      BY <2>1, <3>4 DEF FreeWqe
    <3>6. [f EXCEPT ![w.b] = [data |-> "pool", wqe |-> "pool"]] = [o EXCEPT ![w.b] = [data |-> "pool", wqe |-> "pool"]]
      BY DEF BufOwners
    <3> QED BY <3>2, <3>5, <3>6 DEF Dispose, Pool
  <2>2. CASE ~w.separate
    BY <2>2 DEF Dispose, FreeData, FreeWqe
  <2> QED BY <2>1, <2>2
<1>3. ~Wrong(o, c, [o EXCEPT ![w.b] = Pool])
  BY <1>1 DEF Wrong, BufOwners
<1> QED BY <1>2, <1>3

\* A step that changes neither a queue nor an owner.
LEMMA BufStill ==
  ASSUME BufInv, NEW c \in Core, NEW t \in BufCore, core' = [core EXCEPT ![c] = t], UNCHANGED <<holder, bad>>,
         t.inflight = core[c].inflight, t.at = core[c].at, t.txq = core[c].txq, t.sent = core[c].sent,
         BufPhase(t),
         ready' \in BOOLEAN, ready => ready', t.pc \notin {"init", "barrier"} => ready',
         c = InitCore /\ t.pc # "init" => ready'
  PROVE  BufInv'
<1>1. BufHas(core[c], c, holder) /\ holder' \in BufOwners /\ bad' = FALSE
  BY DEF BufInv
<1>2. BufHas(t, c, holder')
  <2>1. BufWaits(t) = BufWaits(core[c]) /\ \A p \in Ports : BufQueued(t, p) = BufQueued(core[c], p)
    BY DEF BufWaits, BufQueued
  <2>2. BufApart(t)
    BY <1>1, <2>1 DEF BufHas, BufApart
  <2>3. BufOwned(t, c, holder)
    BY <1>1, <2>1 DEF BufHas, BufOwned
  <2>4. BufPlaced(t, c, holder)
    BY <1>1, <2>1 DEF BufHas, BufPlaced
  <2> QED BY <2>2, <2>3, <2>4 DEF BufHas
<1>3. \A b \in Buffer, d \in Core \ {c} :
        (holder'[b].data = d <=> holder[b].data = d) /\ (holder[b].wqe = d => holder'[b].wqe = d)
  OBVIOUS
<1> QED BY <1>1, <1>2, <1>3, BufStep

LEMMA BufSetUpSteps ==
  ASSUME BufInv, NEW c \in Core, HwInit(c) \/ Barrier(c) \/ RxNone(c) \/ SendNext(c)
  PROVE  BufInv'
<1> DEFINE s == core[c]
<1>1. s \in BufCore /\ core \in [Core -> BufCore] /\ BufPhase(s) /\ ready \in BOOLEAN
  BY DEF BufInv, BufHas
<1>2. CASE HwInit(c)
  <2> DEFINE t == [s EXCEPT !.pc = "barrier"]
  <2>1. t \in BufCore /\ t.inflight = s.inflight /\ t.at = s.at /\ t.txq = s.txq /\ t.sent = s.sent /\ t.pc = "barrier"
    BY <1>1 DEF BufCore
  <2>2. core' = [core EXCEPT ![c] = t] /\ UNCHANGED <<holder, bad>> /\ s.pc = "init" /\ ready' = (ready \/ c = InitCore)
    BY <1>2 DEF HwInit
  <2>3. BufPhase(t)
    BY <1>1, <2>1, <2>2 DEF BufPhase
  <2> HIDE DEF s, t
  <2>4. ready' \in BOOLEAN /\ (ready => ready') /\ (c = InitCore => ready')
    BY <1>1, <2>2
  <2> QED BY <2>1, <2>2, <2>3, <2>4, BufStill DEF s
<1>3. CASE Barrier(c)
  <2> DEFINE t == [s EXCEPT !.pc = "rx"]
  <2>1. t \in BufCore /\ t.inflight = s.inflight /\ t.at = s.at /\ t.txq = s.txq /\ t.sent = s.sent /\ t.pc = "rx" /\ t.examined = s.examined
    BY <1>1 DEF BufCore
  <2>2. core' = [core EXCEPT ![c] = t] /\ UNCHANGED <<holder, ready, bad>> /\ s.pc = "barrier" /\ \A d \in Core : core[d].pc # "init"
    BY <1>3 DEF Barrier
  <2>3. BufPhase(t)
    <3>1. s.examined = 0 /\ s.inflight = <<>> /\ Len(s.inflight) = 0
      BY <1>1, <2>2 DEF BufPhase
    <3> QED BY <1>1, <2>1, <2>2, <3>1, BufAssumption DEF BufPhase
  <2>4. ready' \in BOOLEAN /\ (ready => ready') /\ ready'
    BY <2>2, BufAssumption DEF BufInv, BufSetUp
  <2> HIDE DEF s, t
  <2> QED BY <1>1, <2>1, <2>2, <2>3, <2>4, BufStill DEF s
<1>4. CASE RxNone(c)
  <2> DEFINE t == [s EXCEPT !.pc = "process"]
  <2>1. t \in BufCore /\ t.inflight = s.inflight /\ t.at = s.at /\ t.txq = s.txq /\ t.sent = s.sent /\ t.pc = "process"
    BY <1>1 DEF BufCore
  <2>2. core' = [core EXCEPT ![c] = t] /\ UNCHANGED <<holder, ready, bad>> /\ s.pc = "rx"
    BY <1>4 DEF RxNone
  <2>3. BufPhase(t)
    BY <1>1, <2>1, <2>2 DEF BufPhase
  <2>4. ready' \in BOOLEAN /\ (ready => ready') /\ ready'
    BY <2>2 DEF BufInv, BufSetUp
  <2> HIDE DEF s, t
  <2> QED BY <1>1, <2>1, <2>2, <2>3, <2>4, BufStill DEF s
<1>5. CASE SendNext(c)
  <2> DEFINE t == BufAdvance(s)
  <2>1. core' = [core EXCEPT ![c] = t] /\ UNCHANGED <<holder, ready, bad>> /\ s.pc = "flush"
    BY <1>5 DEF SendNext
  <2>2. PICK n \in Nat : Cardinality(Ports) = n
    BY BufAssumption, FS_CardinalityType
  <2>3. Ports = 1 .. n /\ 1 \in Ports
    BY <2>2, BufAssumption
  <2>4. t \in BufCore /\ t.inflight = s.inflight /\ t.at = s.at /\ t.txq = s.txq /\ t.sent = s.sent /\ t.pc = s.pc
    <3>1. s.port \in 1 .. n /\ s.pass \in Nat
      BY <1>1, <2>3 DEF BufCore
    <3>2. CASE s.port < n
      <4>1. s.port + 1 \in Ports /\ t = [s EXCEPT !.port = s.port + 1]
        BY <2>2, <2>3, <3>1, <3>2 DEF BufAdvance
      <4> QED BY <1>1, <4>1 DEF BufCore
    <3>3. CASE ~(s.port < n)
      <4>1. t = [s EXCEPT !.port = 1, !.pass = s.pass + 1] /\ s.pass + 1 \in Nat
        BY <2>2, <3>1, <3>3 DEF BufAdvance
      <4> QED BY <1>1, <2>3, <4>1 DEF BufCore
    <3> QED BY <3>2, <3>3
  <2>5. BufPhase(t)
    BY <1>1, <2>1, <2>4 DEF BufPhase
  <2>6. ready' \in BOOLEAN /\ (ready => ready') /\ ready'
    BY <2>1 DEF BufInv, BufSetUp
  <2> HIDE DEF s, t
  <2> QED BY <1>1, <2>1, <2>4, <2>5, <2>6, BufStill DEF s
<1> QED BY <1>2, <1>3, <1>4, <1>5

\* The state a poll begins with.
LEMMA BufIdleIs ==
  /\ BufIdle \in BufCore /\ BufIdle.pc = "init" /\ BufIdle.inflight = <<>> /\ BufIdle.at = 1 /\ BufIdle.examined = 0
  /\ BufIdle.sent = None /\ \A p \in Ports : BufIdle.txq[p] = <<>>
<1>1. 1 \in Ports
  BY BufAssumption, FS_CardinalityType
<1>2. BufIdle.pc = "init" /\ BufIdle.inflight = <<>> /\ BufIdle.at = 1 /\ BufIdle.examined = 0
      /\ BufIdle.sent = None /\ BufIdle.pass = 1 /\ BufIdle.port = 1
  BY DEF BufIdle
<1>3. BufIdle.txq = [p \in Ports |-> <<>>]
  BY DEF BufIdle
<1>4. BufIdle \in BufCore
  <2>1. [p \in Ports |-> <<>>] \in [Ports -> Seq(BufWork)] /\ 0 \in 0 .. BufBurst
    BY BufAssumption
  <2> QED BY <1>1, <2>1 DEF BufIdle, BufCore
<1> QED BY <1>2, <1>3, <1>4

LEMMA BufProcessEnds ==
  ASSUME BufInv, NEW c \in Core, ProcessEnd(c)
  PROVE  BufInv'
<1> DEFINE s == core[c]
           t == [BufIdle EXCEPT !.pc = "flush", !.txq = s.txq]
<1>1. s \in BufCore /\ core \in [Core -> BufCore] /\ BufHas(s, c, holder) /\ holder' = holder /\ holder' \in BufOwners
  BY DEF BufInv, ProcessEnd
<1>2. core' = [core EXCEPT ![c] = t] /\ UNCHANGED <<holder, ready, bad>> /\ s.pc = "process" /\ s.at > Len(s.inflight)
  BY DEF ProcessEnd
<1>3. 1 \in Ports
  BY BufAssumption, FS_CardinalityType
<1>4. t \in BufCore /\ t.inflight = <<>> /\ t.at = 1 /\ t.txq = s.txq /\ t.sent = None /\ t.pc = "flush"
  <2>1. s.txq \in [Ports -> Seq(BufWork)]
    BY <1>1 DEF BufCore
  <2> HIDE DEF s
  <2> QED BY <2>1, BufIdleIs DEF BufCore
<1> HIDE DEF t
<1>5. BufWaits(t) = {} /\ BufWaits(s) = {}
  BY <1>1, <1>2, <1>4 DEF BufWaits, BufCore
<1>6. \A p \in Ports : BufQueued(t, p) = BufQueued(s, p) /\ t.txq[p] = s.txq[p]
  BY <1>4 DEF BufQueued
<1>7. BufPhase(t)
  BY <1>1, <1>4, BufAssumption DEF BufPhase, BufHas
<1>8. BufHas(t, c, holder')
  <2>1. BufApart(t)
    BY <1>1, <1>5, <1>6 DEF BufHas, BufApart
  <2>2. BufOwned(t, c, holder)
    BY <1>1, <1>4, <1>5, <1>6 DEF BufHas, BufOwned
  <2>3. BufPlaced(t, c, holder)
    BY <1>1, <1>5, <1>6 DEF BufHas, BufPlaced
  <2> QED BY <1>1, <1>7, <2>1, <2>2, <2>3 DEF BufHas
<1>9. ready' \in BOOLEAN /\ (ready => ready') /\ ready' /\ bad' = FALSE
  BY <1>2 DEF BufInv, BufSetUp
<1>10. \A b \in Buffer, d \in Core \ {c} :
        (holder'[b].data = d <=> holder[b].data = d) /\ (holder[b].wqe = d => holder'[b].wqe = d)
  BY <1>1
<1> QED BY <1>1, <1>2, <1>4, <1>8, <1>9, <1>10, BufStep

\* The work entry of a packet that was sent goes back too.
LEMMA BufDisposesSent ==
  ASSUME BufInv, NEW c \in Core, DisposeSent(c)
  PROVE  BufInv'
<1> DEFINE s == core[c]
           t == [s EXCEPT !.sent = None]
           w == s.sent
<1>1. s \in BufCore /\ core \in [Core -> BufCore] /\ BufHas(s, c, holder) /\ holder \in BufOwners /\ bad = FALSE
  BY DEF BufInv
<1>2. core' = [core EXCEPT ![c] = t] /\ ready' = ready /\ s.pc = "flush" /\ w # None
      /\ holder' = FreeWqe(holder, c, w) /\ bad' = (bad \/ Wrong(holder, c, holder'))
  BY DEF DisposeSent
<1>3. t \in BufCore /\ t.inflight = s.inflight /\ t.at = s.at /\ t.txq = s.txq /\ t.sent = None /\ t.pc = s.pc
  BY <1>1 DEF BufCore
<1>4. w \in BufWork /\ w.b \in Buffer /\ w.separate \in BOOLEAN
  BY <1>1, <1>2 DEF BufCore, BufWork
<1>5. holder' \in BufOwners /\ \A b \in Buffer : holder'[b].data = holder[b].data /\ holder'[b].wqe \in BufOwner
      /\ (holder'[b].wqe # holder[b].wqe => b = w.b /\ w.separate /\ holder'[b].wqe = "pool")
  <2>1. CASE w.separate
    <3>1. holder' = [holder EXCEPT ![w.b] = [holder[w.b] EXCEPT !.wqe = "pool"]]
      BY <1>2, <2>1 DEF FreeWqe
    <3> HIDE DEF w
    <3>2. [holder[w.b] EXCEPT !.wqe = "pool"] \in [data : BufOwner, wqe : BufOwner]
          /\ [holder[w.b] EXCEPT !.wqe = "pool"].data = holder[w.b].data /\ [holder[w.b] EXCEPT !.wqe = "pool"].wqe = "pool"
      BY <1>1, <1>4 DEF BufOwners, BufOwner
    <3> QED BY <1>1, <1>4, <2>1, <3>1, <3>2 DEF BufOwners
  <2>2. CASE ~w.separate
    BY <1>1, <1>2, <2>2 DEF FreeWqe, BufOwners
  <2> QED BY <2>1, <2>2, <1>4
<1>6. w.separate => holder[w.b].wqe = c /\ holder[w.b].data # c
  BY <1>1, <1>2 DEF BufHas, BufOwned
<1> HIDE DEF s, t, w
<1>7. ~Wrong(holder, c, holder')
  BY <1>5, <1>6 DEF Wrong
<1>8. BufPhase(t)
  BY <1>1, <1>2, <1>3 DEF BufPhase, BufHas
<1>9. BufWaits(t) = BufWaits(s) /\ \A p \in Ports : BufQueued(t, p) = BufQueued(s, p)
  BY <1>3 DEF BufWaits, BufQueued
<1>10. \A b \in Buffer : holder[b] = BufMine(c) => holder'[b] = BufMine(c)
  BY <1>1, <1>5, <1>6 DEF BufMine, BufOwners
<1>11. BufOwned(t, c, holder')
  <2>1. \A i \in BufWaits(t) : t.inflight[i].disp = "held" /\ t.inflight[i].b \in Buffer /\ holder[t.inflight[i].b] = BufMine(c)
    BY <1>1, <1>3, <1>9, BufPlaces DEF BufHas, BufOwned
  <2>2. \A p \in Ports : \A j \in BufQueued(t, p) : t.txq[p][j].b \in Buffer /\ holder[t.txq[p][j].b] = BufMine(c)
    BY <1>1, <1>3, <1>9, BufPlaces DEF BufHas, BufOwned
  <2> QED BY <1>3, <1>10, <2>1, <2>2 DEF BufOwned
<1>12. BufApart(t) /\ BufPlaced(t, c, holder')
  BY <1>1, <1>3, <1>5, <1>9 DEF BufHas, BufApart, BufPlaced
<1>13. BufHas(t, c, holder')
  BY <1>8, <1>11, <1>12 DEF BufHas
<1>14. \A b \in Buffer, d \in Core \ {c} :
        (holder'[b].data = d <=> holder[b].data = d) /\ (holder[b].wqe = d => holder'[b].wqe = d)
  BY <1>5, <1>6
<1>15. ready' \in BOOLEAN /\ (ready => ready') /\ ready' /\ bad' = FALSE
  BY <1>1, <1>2, <1>7 DEF BufInv, BufSetUp, s
<1> QED BY <1>2, <1>3, <1>5, <1>13, <1>14, <1>15, BufStep DEF s

\* A packet that arrives in a buffer of the pool.
LEMMA BufReceives ==
  ASSUME BufInv, NEW c \in Core, NEW b \in Buffer, NEW separate \in BOOLEAN, NEW good \in BOOLEAN, Rx(c, b, separate, good)
  PROVE  BufInv'
<1> DEFINE s == core[c]
           w == [b |-> b, separate |-> separate, disp |-> "held"]
           got == [holder EXCEPT ![b] = [data |-> c, wqe |-> c]]
           inflight2 == IF good THEN Append(s.inflight, w) ELSE s.inflight
           s2 == [s EXCEPT !.examined = @ + 1, !.inflight = inflight2]
           full == s2.examined = BufBurst \/ Len(s2.inflight) = BufBurst
           t == IF full THEN [s2 EXCEPT !.pc = "process"] ELSE s2
<1>1. s \in BufCore /\ core \in [Core -> BufCore] /\ BufHas(s, c, holder) /\ holder \in BufOwners /\ bad = FALSE /\ BufPhase(s)
  BY DEF BufInv, BufHas
<1>2. s.pc = "rx" /\ b \in InPool /\ ready' = ready /\ core' = [core EXCEPT ![c] = t]
      /\ holder' = IF good THEN got ELSE Dispose(got, c, w)
  BY DEF Rx
<1>3. bad' = (bad \/ (~good /\ Wrong(got, c, Dispose(got, c, w))))
  BY DEF Rx
<1>4. holder[b] = Pool
  BY <1>2 DEF InPool
<1>5. w \in BufWork /\ w.b = b /\ w.disp = "held"
  BY DEF BufWork
<1>6. got \in BufOwners /\ got[b] = BufMine(c) /\ \A x \in Buffer \ {b} : got[x] = holder[x]
  BY <1>1 DEF BufOwners, BufOwner, BufMine
<1>7. Dispose(got, c, w) = [got EXCEPT ![b] = Pool] /\ ~Wrong(got, c, Dispose(got, c, w))
  <2> HIDE DEF w, got
  <2> QED BY <1>5, <1>6, DisposeIs
<1>8. bad' = FALSE
  BY <1>1, <1>3, <1>7
<1>9. s.at = 1 /\ s.examined < BufBurst /\ Len(s.inflight) < BufBurst /\ s.sent = None /\ \A p \in Ports : s.txq[p] = <<>>
  BY <1>1, <1>2 DEF BufPhase
<1>10. inflight2 \in Seq(BufWork) /\ Len(inflight2) <= Len(s.inflight) + 1 /\ Len(s.inflight) \in Nat
  <2>1. s.inflight \in Seq(BufWork)
    BY <1>1 DEF BufCore
  <2> HIDE DEF s, w
  <2> QED BY <2>1, <1>5
<1>11. s2 \in BufCore /\ s2.inflight = inflight2 /\ s2.examined = s.examined + 1 /\ s2.at = 1 /\ s2.txq = s.txq /\ s2.sent = None
       /\ s2.pc = "rx"
  <2>1. s.examined + 1 \in 0 .. BufBurst
    BY <1>1, <1>9, BufAssumption DEF BufCore
  <2> HIDE DEF inflight2
  <2> QED BY <1>1, <1>2, <1>9, <1>10, <2>1 DEF BufCore
<1>12. t \in BufCore /\ t.inflight = inflight2 /\ t.examined = s.examined + 1 /\ t.at = 1 /\ t.txq = s.txq /\ t.sent = None
       /\ (full => t.pc = "process") /\ (~full => t.pc = "rx")
  <2> HIDE DEF s2
  <2> QED BY <1>11 DEF BufCore
<1>13. full <=> (s.examined + 1 = BufBurst \/ Len(inflight2) = BufBurst)
  BY <1>11
<1> HIDE DEF s2, full, t
<1>14. BufPhase(t)
  <2>1. Len(inflight2) <= BufBurst /\ Len(inflight2) \in Nat
    BY <1>9, <1>10, BufAssumption
  <2>2. s.examined \in Nat
    BY <1>1, BufAssumption DEF BufCore
  <2>3. ~full => t.examined < BufBurst /\ Len(t.inflight) < BufBurst
    <3> HIDE DEF s, inflight2
    <3> QED BY <1>9, <1>12, <1>13, <2>1, <2>2, BufAssumption
  <2>4. \A p \in Ports : t.txq[p] = <<>> /\ Len(t.txq[p]) <= BufBurst
    BY <1>9, <1>12, BufAssumption
  <2> HIDE DEF s, inflight2
  <2> QED BY <1>12, <2>1, <2>3, <2>4 DEF BufPhase
<1>15. \A p \in Ports : BufQueued(t, p) = {} /\ BufQueued(s, p) = {}
  BY <1>9, <1>12 DEF BufQueued
<1>16. BufWaits(s) = 1 .. Len(s.inflight) /\ BufWaits(t) = 1 .. Len(inflight2)
  BY <1>9, <1>12 DEF BufWaits
<1>17. s.inflight \in Seq(BufWork)
  BY <1>1 DEF BufCore
<1>18. \A i \in BufWaits(s) : s.inflight[i].b \in Buffer \ {b} /\ holder[s.inflight[i].b] = BufMine(c) /\ s.inflight[i].disp = "held"
  BY <1>1, <1>4, BufMineIs, BufPlaces DEF BufHas, BufOwned
<1>19. BufHas(t, c, holder') /\ holder' \in BufOwners /\ \A x \in Buffer \ {b} : holder'[x] = holder[x]
  <2>1. CASE good
    <3>1. holder' = got /\ inflight2 = Append(s.inflight, w)
      BY <1>2, <2>1
    <3> HIDE DEF s, inflight2, got, w
    <3>2. Len(inflight2) = Len(s.inflight) + 1 /\ inflight2[Len(s.inflight) + 1] = w
          /\ \A i \in 1 .. Len(s.inflight) : inflight2[i] = s.inflight[i]
      BY <1>17, <3>1
    <3>3. \A i \in BufWaits(t) : i = Len(s.inflight) + 1 \/ i \in BufWaits(s)
      BY <1>10, <1>16, <3>2
    <3>4. BufApart(t)
      BY <1>1, <1>5, <1>12, <1>15, <1>16, <1>18, <3>2, <3>3 DEF BufHas, BufApart
    <3>5. BufOwned(t, c, holder')
      BY <1>5, <1>6, <1>12, <1>15, <1>16, <1>18, <3>1, <3>2, <3>3 DEF BufOwned
    <3>6. BufPlaced(t, c, holder')
      <4>1. Len(s.inflight) + 1 \in BufWaits(t) /\ \A i \in BufWaits(s) : i \in BufWaits(t)
        BY <1>10, <1>16, <3>2
      <4>2. \A i \in BufWaits(s) : t.inflight[i] = s.inflight[i]
        BY <1>12, <1>16, <3>2
      <4>3. t.inflight[Len(s.inflight) + 1].b = b
        BY <1>5, <1>12, <3>2
      <4>4. ASSUME NEW x \in Buffer, holder'[x].data = c, x # b PROVE \E i \in BufWaits(t) : t.inflight[i].b = x
        <5>1. holder[x].data = c
          BY <1>6, <3>1, <4>4
        <5>2. PICK i \in BufWaits(s) : s.inflight[i].b = x
          BY <1>1, <1>15, <5>1 DEF BufHas, BufPlaced
        <5> QED BY <4>1, <4>2, <5>2
      <4> QED BY <4>1, <4>3, <4>4 DEF BufPlaced
    <3> QED BY <1>6, <1>14, <3>1, <3>4, <3>5, <3>6 DEF BufHas
  <2>2. CASE ~good
    <3>1. holder' = [got EXCEPT ![b] = Pool] /\ inflight2 = s.inflight
      BY <1>2, <1>7, <2>2
    <3>2. holder' = holder
      <4>1. holder' \in BufOwners
        BY <1>6, <3>1 DEF BufOwners, BufOwner, Pool
      <4>2. \A x \in Buffer : holder'[x] = holder[x]
        BY <1>4, <1>6, <3>1 DEF BufOwners
      <4> QED BY <1>1, <4>1, <4>2 DEF BufOwners
    <3> HIDE DEF s, inflight2, got, w
    <3>3. BufApart(t) /\ BufOwned(t, c, holder) /\ BufPlaced(t, c, holder)
      BY <1>1, <1>12, <1>15, <1>16, <1>18, <3>1 DEF BufHas, BufApart, BufOwned, BufPlaced
    <3> QED BY <1>1, <1>14, <3>2, <3>3 DEF BufHas
  <2> QED BY <2>1, <2>2
<1>20. holder'[b] \in {Pool, BufMine(c)}
  BY <1>2, <1>4, <1>6, <1>7 DEF BufOwners
<1>21. \A x \in Buffer, d \in Core \ {c} :
        (holder'[x].data = d <=> holder[x].data = d) /\ (holder[x].wqe = d => holder'[x].wqe = d)
  BY <1>4, <1>19, <1>20, BufMineIs
<1>22. ready' \in BOOLEAN /\ (ready => ready') /\ ready'
  BY <1>2 DEF BufInv, BufSetUp
<1> HIDE DEF s
<1> QED BY <1>2, <1>8, <1>12, <1>19, <1>21, <1>22, BufStep DEF s

\* The head of a queue leaves it; the core has no more of its data.
LEMMA BufTakes ==
  ASSUME NEW s \in BufCore, NEW t \in BufCore, NEW c \in Core, NEW o \in BufOwners, NEW o2 \in BufOwners,
         BufHas(s, c, o), NEW p \in Ports, s.txq[p] # <<>>, s.pc = "flush", t.pc = "flush",
         t.inflight = s.inflight, t.at = s.at, t.txq = [s.txq EXCEPT ![p] = Tail(s.txq[p])],
         \A b \in Buffer \ {s.txq[p][1].b} : o2[b] = o[b],
         o2[s.txq[p][1].b].data # c,
         t.sent # None /\ t.sent.separate => o2[t.sent.b].wqe = c /\ o2[t.sent.b].data # c
  PROVE  BufHas(t, c, o2)
<1> DEFINE Came(q, j) == IF q = p THEN j + 1 ELSE j
<1>1. \A q \in Ports : s.txq[q] \in Seq(BufWork) /\ Len(s.txq[q]) \in Nat
  BY DEF BufCore
<1>2. Len(t.txq[p]) = Len(s.txq[p]) - 1 /\ Len(s.txq[p]) >= 1 /\ \A j \in 1 .. Len(t.txq[p]) : t.txq[p][j] = s.txq[p][j + 1]
  <2>1. s.txq \in [Ports -> Seq(BufWork)]
    BY DEF BufCore
  <2>2. t.txq[p] = Tail(s.txq[p])
    BY <2>1
  <2>3. s.txq[p] \in Seq(BufWork) /\ s.txq[p] # <<>>
    BY <1>1
  <2>4. ASSUME NEW x \in Seq(BufWork), x # <<>>
        PROVE  Len(Tail(x)) = Len(x) - 1 /\ Len(x) >= 1 /\ \A j \in 1 .. Len(Tail(x)) : Tail(x)[j] = x[j + 1]
    BY <2>4
  <2> QED BY <2>2, <2>3, <2>4
<1>3. \A q \in Ports \ {p} : t.txq[q] = s.txq[q]
  <2>1. s.txq \in [Ports -> Seq(BufWork)]
    BY DEF BufCore
  <2> QED BY <2>1
<1>4. 1 \in BufQueued(s, p)
  BY <1>1, <1>2 DEF BufQueued
<1>5. ASSUME NEW q \in Ports, NEW j \in BufQueued(t, q)
      PROVE  j \in Nat /\ Came(q, j) \in BufQueued(s, q) /\ t.txq[q][j] = s.txq[q][Came(q, j)] /\ ~(q = p /\ Came(q, j) = 1)
  <2>1. CASE q = p
    BY <1>1, <1>2, <2>1 DEF BufQueued
  <2>2. CASE q # p
    BY <1>1, <1>3, <2>2 DEF BufQueued
  <2> QED BY <2>1, <2>2
<1>6. ASSUME NEW q \in Ports, NEW k \in BufQueued(s, q), ~(q = p /\ k = 1)
      PROVE  \E j \in BufQueued(t, q) : t.txq[q][j] = s.txq[q][k]
  <2>1. CASE q = p
    <3>1. k - 1 \in BufQueued(t, p) /\ t.txq[p][k - 1] = s.txq[p][k]
      BY <1>1, <1>2, <1>6, <2>1 DEF BufQueued
    <3> QED BY <2>1, <3>1
  <2>2. CASE q # p
    BY <1>1, <1>3, <2>2 DEF BufQueued
  <2> QED BY <2>1, <2>2
<1>7. BufWaits(s) = {} /\ BufWaits(t) = {}
  BY DEF BufHas, BufPhase, BufWaits
<1>8. \A q \in Ports : Len(t.txq[q]) <= Len(s.txq[q])
  BY <1>1, <1>2, <1>3
<1>9. BufPhase(t)
  <2>1. \A q \in Ports : Len(t.txq[q]) <= BufBurst
    <3>1. \A q \in Ports : Len(s.txq[q]) <= BufBurst /\ Len(t.txq[q]) \in Nat
      BY <1>1, <1>2, <1>3 DEF BufHas, BufPhase
    <3> QED BY <1>1, <1>8, <3>1, BufAssumption
  <2> QED BY <2>1 DEF BufHas, BufPhase
<1>10. BufApart(t)
  <2>1. ASSUME NEW q \in Ports, NEW r \in Ports, NEW i \in BufQueued(t, q), NEW j \in BufQueued(t, r),
               t.txq[q][i].b = t.txq[r][j].b
        PROVE  q = r /\ i = j
    <3>1. Came(q, i) \in BufQueued(s, q) /\ Came(r, j) \in BufQueued(s, r) /\ s.txq[q][Came(q, i)].b = s.txq[r][Came(r, j)].b
          /\ i \in Nat /\ j \in Nat
      BY <1>5, <2>1
    <3>2. q = r /\ Came(q, i) = Came(r, j)
      BY <3>1 DEF BufHas, BufApart
    <3> QED BY <3>1, <3>2
  <2> QED BY <1>7, <2>1 DEF BufApart
<1>11. ASSUME NEW q \in Ports, NEW j \in BufQueued(t, q) PROVE o2[t.txq[q][j].b] = BufMine(c)
  <2>1. Came(q, j) \in BufQueued(s, q) /\ t.txq[q][j] = s.txq[q][Came(q, j)] /\ ~(q = p /\ Came(q, j) = 1)
    BY <1>5
  <2>2. s.txq[q][Came(q, j)].b # s.txq[p][1].b /\ o[s.txq[q][Came(q, j)].b] = BufMine(c) /\ s.txq[q][Came(q, j)].b \in Buffer
    BY <1>4, <2>1, BufPlaces DEF BufHas, BufApart, BufOwned
  <2> QED BY <2>1, <2>2
<1>12. BufOwned(t, c, o2)
  BY <1>7, <1>11 DEF BufOwned
<1>13. ASSUME NEW b \in Buffer, o2[b].data = c PROVE \E q \in Ports : \E j \in BufQueued(t, q) : t.txq[q][j].b = b
  <2>1. b # s.txq[p][1].b /\ o[b].data = c
    BY <1>13
  <2>2. PICK q \in Ports : \E k \in BufQueued(s, q) : s.txq[q][k].b = b
    BY <1>7, <2>1 DEF BufHas, BufPlaced
  <2>3. PICK k \in BufQueued(s, q) : s.txq[q][k].b = b
    BY <2>2
  <2> QED BY <1>6, <2>1, <2>3
<1> QED BY <1>9, <1>10, <1>12, <1>13 DEF BufHas, BufPlaced

\* PKO accepts the head of a queue, or the driver drops it.
LEMMA BufSends ==
  ASSUME BufInv, NEW c \in Core, SendOk(c) \/ SendRejected(c)
  PROVE  BufInv'
<1> DEFINE s == core[c]
           p == s.port
           w == Head(s.txq[p])
           rest == [s.txq EXCEPT ![p] = Tail(s.txq[p])]
<1>1. s \in BufCore /\ core \in [Core -> BufCore] /\ BufHas(s, c, holder) /\ holder \in BufOwners /\ bad = FALSE
  BY DEF BufInv
<1>2. s.pc = "flush" /\ s.sent = None /\ s.txq[p] # <<>> /\ ready' = ready
  BY DEF SendOk, SendRejected
<1>3. p \in Ports /\ s.txq \in [Ports -> Seq(BufWork)] /\ s.txq[p] \in Seq(BufWork) /\ s.txq[p] # <<>>
  BY <1>1, <1>2 DEF BufCore
<1>4. w = s.txq[p][1] /\ 1 \in BufQueued(s, p)
  BY <1>3 DEF BufQueued
<1>5. w \in BufWork /\ w.b \in Buffer /\ w.separate \in BOOLEAN /\ holder[w.b] = BufMine(c)
  BY <1>1, <1>3, <1>4, BufPlaces DEF BufHas, BufOwned, BufWork
<1>6. rest \in [Ports -> Seq(BufWork)]
  BY <1>3
<1>7. ready' \in BOOLEAN /\ (ready => ready') /\ ready'
  BY <1>1, <1>2 DEF BufInv, BufSetUp
<1>8. CASE SendOk(c)
  <2> DEFINE t == [s EXCEPT !.sent = w, !.txq = rest]
             x == IF w.separate THEN [data |-> "pko", wqe |-> c] ELSE [data |-> "pko", wqe |-> "pko"]
  <2>1. core' = [core EXCEPT ![c] = t]
    <3>1. core' = [core EXCEPT ![c].sent = w, ![c].txq[p] = Tail(s.txq[p])]
      BY <1>8 DEF SendOk
    <3>2. [[core EXCEPT ![c].sent = w] EXCEPT ![c].txq[p] = Tail(s.txq[p])] = [core EXCEPT ![c] = t]
      <4>1. [core EXCEPT ![c].sent = w][c] = [s EXCEPT !.sent = w] /\ [s EXCEPT !.sent = w].txq = s.txq
        BY <1>1 DEF BufCore
      <4> HIDE DEF s, w, rest
      <4> QED BY <1>1, <4>1 DEF s, rest, BufCore
    <3> QED BY <3>1, <3>2
  <2>2. t \in BufCore /\ t.inflight = s.inflight /\ t.at = s.at /\ t.txq = rest /\ t.sent = w /\ t.pc = "flush"
    <3> HIDE DEF w, rest
    <3> QED BY <1>1, <1>2, <1>5, <1>6 DEF BufCore
  <2>3. [holder[w.b] EXCEPT !.data = "pko"] = [data |-> "pko", wqe |-> c]
    <3> HIDE DEF w
    <3> QED BY <1>5 DEF BufMine
  <2>4. holder' = [holder EXCEPT ![w.b] = x] /\ bad' = FALSE
    <3>1. holder' = [holder EXCEPT ![w.b] = IF w.separate THEN [holder[w.b] EXCEPT !.data = "pko"] ELSE [data |-> "pko", wqe |-> "pko"]]
          /\ bad' = (bad \/ holder[w.b].data # c)
      BY <1>8 DEF SendOk
    <3> HIDE DEF s, w
    <3> QED BY <1>1, <1>5, <2>3, <3>1, BufMineIs
  <2> HIDE DEF s, t, w, rest
  <2>5. holder' \in BufOwners /\ holder'[w.b] = x /\ \A b \in Buffer \ {w.b} : holder'[b] = holder[b]
    BY <1>1, <1>5, <2>4 DEF BufOwners, BufOwner
  <2>6. x.data = "pko" /\ x.data # c /\ (w.separate => x.wqe = c) /\ x.wqe \in {c, "pko"}
    BY BufMineIs
  <2>7. BufHas(t, c, holder')
    <3>1. \A b \in Buffer \ {s.txq[p][1].b} : holder'[b] = holder[b]
      BY <1>4, <2>5
    <3>2. holder'[s.txq[p][1].b].data # c
      BY <1>4, <2>5, <2>6
    <3>3. t.sent # None /\ t.sent.separate => holder'[t.sent.b].wqe = c /\ holder'[t.sent.b].data # c
      BY <2>2, <2>5, <2>6
    <3>4. t.txq = [s.txq EXCEPT ![p] = Tail(s.txq[p])]
      BY <2>2 DEF rest
    <3>5. s \in BufCore /\ BufHas(s, c, holder) /\ s.pc = "flush" /\ t \in BufCore /\ t.pc = "flush"
          /\ t.inflight = s.inflight /\ t.at = s.at
      BY <1>1, <1>2, <2>2
    <3>6. holder \in BufOwners /\ holder' \in BufOwners /\ p \in Ports /\ s.txq[p] # <<>>
      BY <1>1, <1>2, <1>3, <2>5
    <3> HIDE DEF p, x
    <3> QED BY <3>1, <3>2, <3>3, <3>4, <3>5, <3>6, BufTakes
  <2>8. \A b \in Buffer, d \in Core \ {c} :
        (holder'[b].data = d <=> holder[b].data = d) /\ (holder[b].wqe = d => holder'[b].wqe = d)
    BY <1>5, <2>5, <2>6, BufMineIs
  <2> QED BY <1>7, <2>1, <2>2, <2>4, <2>5, <2>7, <2>8, BufStep DEF p
<1>9. CASE SendRejected(c)
  <2> DEFINE t == [s EXCEPT !.txq = rest]
  <2>1. core' = [core EXCEPT ![c] = t]
    <3>1. core' = [core EXCEPT ![c].txq[p] = Tail(s.txq[p])]
      BY <1>9 DEF SendRejected
    <3> QED BY <1>1, <3>1 DEF BufCore
  <2>2. t \in BufCore /\ t.inflight = s.inflight /\ t.at = s.at /\ t.txq = rest /\ t.sent = None /\ t.pc = "flush"
    <3> HIDE DEF rest
    <3> QED BY <1>1, <1>2, <1>6 DEF BufCore
  <2>3. holder' = [holder EXCEPT ![w.b] = Pool] /\ bad' = FALSE
    <3>1. holder' = Dispose(holder, c, w) /\ bad' = (bad \/ Wrong(holder, c, Dispose(holder, c, w)))
      BY <1>9 DEF SendRejected
    <3> HIDE DEF s, w
    <3> QED BY <1>1, <1>5, <3>1, DisposeIs
  <2> HIDE DEF s, t, w, rest
  <2>5. holder' \in BufOwners /\ holder'[w.b] = Pool /\ \A b \in Buffer \ {w.b} : holder'[b] = holder[b]
    BY <1>1, <1>5, <2>3 DEF BufOwners, BufOwner, Pool
  <2>7. BufHas(t, c, holder')
    <3>1. \A b \in Buffer \ {s.txq[p][1].b} : holder'[b] = holder[b]
      BY <1>4, <2>5
    <3>2. holder'[s.txq[p][1].b].data # c
      BY <1>4, <2>5, BufMineIs
    <3>3. t.sent # None /\ t.sent.separate => holder'[t.sent.b].wqe = c /\ holder'[t.sent.b].data # c
      BY <2>2
    <3>4. t.txq = [s.txq EXCEPT ![p] = Tail(s.txq[p])]
      BY <2>2 DEF rest
    <3> HIDE DEF p
    <3> QED BY <1>1, <1>2, <1>3, <2>2, <2>5, <3>1, <3>2, <3>3, <3>4, BufTakes
  <2>8. \A b \in Buffer, d \in Core \ {c} :
        (holder'[b].data = d <=> holder[b].data = d) /\ (holder[b].wqe = d => holder'[b].wqe = d)
    BY <1>5, <2>5, BufMineIs
  <2> QED BY <1>7, <2>1, <2>2, <2>3, <2>5, <2>7, <2>8, BufStep DEF p
<1> QED BY <1>8, <1>9

\* A packet is queued for a port or released; a frame the forwarder built goes to PKO.
LEMMA BufProcesses ==
  ASSUME BufInv, NEW c \in Core, NEW out \in Ports \cup {None}, NEW b \in InPool \cup {None}, BufProcess(c, out, b)
  PROVE  BufInv'
<1> DEFINE s == core[c]
           w == s.inflight[s.at]
           queued == out \in Ports /\ Len(s.txq[out]) < BufBurst
           w2 == [w EXCEPT !.disp = IF queued THEN "queued" ELSE "held"]
           w3 == [w EXCEPT !.disp = IF queued THEN "queued" ELSE "freed"]
           e == Emit(b)
           inflight2 == [s.inflight EXCEPT ![s.at] = w3]
           txq2 == IF queued THEN [s.txq EXCEPT ![out] = Append(s.txq[out], w)] ELSE s.txq
           t == [s EXCEPT !.at = s.at + 1, !.inflight = inflight2, !.txq = txq2]
<1>1. s \in BufCore /\ core \in [Core -> BufCore] /\ BufHas(s, c, holder) /\ holder \in BufOwners /\ bad = FALSE /\ BufPhase(s)
  BY DEF BufInv, BufHas
<1>2. s.pc = "process" /\ s.at <= Len(s.inflight) /\ ready' = ready /\ holder' = FreePkt(c, e, w2)
  BY DEF BufProcess
<1>3. bad' = (bad \/ Wrong(e, c, FreePkt(c, e, w2)))
  BY DEF BufProcess
<1>4. s.inflight \in Seq(BufWork) /\ s.at \in Nat \ {0} /\ s.txq \in [Ports -> Seq(BufWork)] /\ s.at \in BufWaits(s) /\ s.sent = None
  BY <1>1, <1>2 DEF BufCore, BufWaits, BufPhase
<1>5. w \in BufWork /\ w.b \in Buffer /\ holder[w.b] = BufMine(c)
  BY <1>1, <1>4, BufPlaces DEF BufHas, BufOwned
<1>6. e \in BufOwners /\ e[w.b] = BufMine(c)
      /\ \A x \in Buffer : e[x] = holder[x] \/ (holder[x] = Pool /\ e[x].data = "pko" /\ e[x].wqe = "pko")
  <2>1. CASE b = None
    <3>1. e = holder
      BY <2>1 DEF Emit
    <3> HIDE DEF w, e
    <3> QED BY <1>1, <1>5, <3>1
  <2>2. CASE b # None
    <3>1. b \in Buffer /\ holder[b] = Pool
      BY <2>2 DEF InPool
    <3>2. e = [holder EXCEPT ![b] = [data |-> "pko", wqe |-> "pko"]]
      BY <2>2 DEF Emit
    <3> HIDE DEF w, e
    <3>3. w.b # b
      BY <1>5, <3>1, BufMineIs
    <3>4. e[b].data = "pko" /\ e[b].wqe = "pko" /\ \A x \in Buffer \ {b} : e[x] = holder[x]
      BY <1>1, <3>1, <3>2 DEF BufOwners
    <3>5. e \in BufOwners
      BY <1>1, <3>2 DEF BufOwners, BufOwner
    <3> QED BY <1>5, <3>1, <3>3, <3>4, <3>5
  <2> QED BY <2>1, <2>2
<1>7. w2 \in BufWork /\ w2.b = w.b /\ w3 \in BufWork /\ w3.b = w.b /\ w2.disp = (IF queued THEN "queued" ELSE "held")
  <2> HIDE DEF w, queued
  <2> QED BY <1>5 DEF BufWork
<1> HIDE DEF e
<1>8. core' = [core EXCEPT ![c] = t]
  <2>1. core' = [core EXCEPT ![c] = [s EXCEPT !.at = s.at + 1, !.inflight[s.at] = w3, !.txq = txq2]]
    BY DEF BufProcess
  <2>2. [s EXCEPT !.at = s.at + 1, !.inflight[s.at] = w3, !.txq = txq2] = t
    <3> HIDE DEF s, w3, txq2
    <3> QED BY <1>1 DEF BufCore, t, inflight2
  <2> QED BY <2>1, <2>2
<1>9. holder' = (IF queued THEN e ELSE [e EXCEPT ![w.b] = Pool]) /\ bad' = FALSE
  <2> HIDE DEF w, w2, queued
  <2>1. CASE queued
    <3>1. FreePkt(c, e, w2) = e
      BY <1>7, <2>1 DEF FreePkt
    <3>2. ~Wrong(e, c, e)
      BY DEF Wrong
    <3> QED BY <1>1, <1>2, <1>3, <2>1, <3>1, <3>2
  <2>2. CASE ~queued
    <3>1. FreePkt(c, e, w2) = Dispose(e, c, w2)
      BY <1>7, <2>2 DEF FreePkt
    <3>2. Dispose(e, c, w2) = [e EXCEPT ![w2.b] = Pool] /\ ~Wrong(e, c, Dispose(e, c, w2))
      BY <1>6, <1>7, DisposeIs
    <3> QED BY <1>1, <1>2, <1>3, <1>7, <2>2, <3>1, <3>2
  <2> QED BY <2>1, <2>2
<1>10. inflight2 \in Seq(BufWork) /\ Len(inflight2) = Len(s.inflight) /\ \A i \in 1 .. Len(s.inflight) : i # s.at => inflight2[i] = s.inflight[i]
  <2>1. s.at \in 1 .. Len(s.inflight)
    BY <1>2, <1>4
  <2> HIDE DEF s, w3
  <2> QED BY <1>4, <1>7, <2>1, SeqReplaced
<1>11. txq2 \in [Ports -> Seq(BufWork)]
  <2> HIDE DEF s, w
  <2> QED BY <1>4, <1>5
<1>12. t \in BufCore /\ t.inflight = inflight2 /\ t.at = s.at + 1 /\ t.txq = txq2 /\ t.sent = None /\ t.pc = "process"
  <2>1. s.at + 1 \in Nat \ {0}
    BY <1>4
  <2> HIDE DEF inflight2, txq2, s
  <2> QED BY <1>1, <1>2, <1>4, <1>10, <1>11, <2>1 DEF BufCore
<1> HIDE DEF t, inflight2, w2, w3
<1>13. \A i : i \in BufWaits(t) <=> i \in BufWaits(s) /\ i # s.at
  <2> HIDE DEF s
  <2> QED BY <1>4, <1>10, <1>12 DEF BufWaits
<1>14. \A i \in BufWaits(t) : t.inflight[i] = s.inflight[i]
  BY <1>10, <1>12, <1>13 DEF BufWaits
<1>15. CASE ~queued
  <2> HIDE DEF queued
  <2>1. holder' = [e EXCEPT ![w.b] = Pool] /\ t.txq = s.txq
    BY <1>9, <1>12, <1>15
  <2> HIDE DEF s, w, txq2
  <2>2. holder' \in BufOwners /\ holder'[w.b] = Pool /\ \A x \in Buffer \ {w.b} : holder'[x] = e[x]
    BY <1>5, <1>6, <2>1 DEF BufOwners, BufOwner, Pool
  <2>3. \A p \in Ports : BufQueued(t, p) = BufQueued(s, p)
    BY <2>1 DEF BufQueued
  <2>4. BufPhase(t)
    BY <1>1, <1>10, <1>12, <2>1 DEF BufPhase
  <2>5. BufApart(t)
    BY <1>1, <1>13, <1>14, <2>1, <2>3 DEF BufHas, BufApart
  <2>6. \A x \in Buffer : x # w.b /\ holder[x] = BufMine(c) => holder'[x] = BufMine(c)
    BY <1>6, <2>2, BufMineIs
  <2>7. \A i \in BufWaits(t) : t.inflight[i].b \in Buffer /\ t.inflight[i].b # w.b /\ holder[t.inflight[i].b] = BufMine(c) /\ t.inflight[i].disp = "held"
    BY <1>1, <1>4, <1>13, <1>14, BufPlaces DEF BufHas, BufApart, BufOwned, w
  <2>8. \A p \in Ports : \A j \in BufQueued(t, p) :
          t.txq[p][j].b \in Buffer /\ t.txq[p][j].b # w.b /\ holder[t.txq[p][j].b] = BufMine(c)
    BY <1>1, <1>4, <2>1, <2>3, BufPlaces DEF BufHas, BufApart, BufOwned, w
  <2>9. BufOwned(t, c, holder')
    BY <1>12, <2>6, <2>7, <2>8 DEF BufOwned
  <2>10. BufPlaced(t, c, holder')
    <3>1. ASSUME NEW x \in Buffer, holder'[x].data = c
          PROVE  \/ \E i \in BufWaits(t) : t.inflight[i].b = x
                 \/ \E p \in Ports : \E j \in BufQueued(t, p) : t.txq[p][j].b = x
      <4>1. x # w.b /\ holder[x].data = c
        BY <1>6, <2>2, <3>1, BufMineIs
      <4>2. CASE \E i \in BufWaits(s) : s.inflight[i].b = x
        BY <1>13, <1>14, <4>1, <4>2 DEF w
      <4>3. CASE \E p \in Ports : \E j \in BufQueued(s, p) : s.txq[p][j].b = x
        BY <2>1, <2>3, <4>3
      <4> QED BY <1>1, <4>1, <4>2, <4>3 DEF BufHas, BufPlaced
    <3> QED BY <3>1 DEF BufPlaced
  <2>11. BufHas(t, c, holder')
    BY <2>4, <2>5, <2>9, <2>10 DEF BufHas
  <2>12. \A x \in Buffer, d \in Core \ {c} :
        (holder'[x].data = d <=> holder[x].data = d) /\ (holder[x].wqe = d => holder'[x].wqe = d)
    BY <1>5, <1>6, <2>2, BufMineIs
  <2>13. ready' \in BOOLEAN /\ (ready => ready') /\ ready'
    BY <1>2 DEF BufInv, BufSetUp, s
  <2> QED BY <1>8, <1>9, <1>12, <2>2, <2>11, <2>12, <2>13, BufStep
<1>16. CASE queued
  <2>1. holder' = e /\ out \in Ports /\ Len(s.txq[out]) < BufBurst /\ t.txq = [s.txq EXCEPT ![out] = Append(s.txq[out], w)]
    BY <1>9, <1>12, <1>16
  <2> HIDE DEF s, w, txq2, queued
  <2> DEFINE n == Len(s.txq[out])
  <2>2. s.txq[out] \in Seq(BufWork) /\ n \in Nat
    BY <1>4, <2>1
  <2>3. \A p \in Ports \ {out} : t.txq[p] = s.txq[p] /\ BufQueued(t, p) = BufQueued(s, p)
    BY <1>4, <2>1 DEF BufQueued
  <2>4. t.txq[out] = Append(s.txq[out], w)
    BY <1>4, <2>1
  <2>5. Len(t.txq[out]) = n + 1 /\ t.txq[out][n + 1] = w /\ \A j \in 1 .. n : t.txq[out][j] = s.txq[out][j]
    BY <1>5, <2>2, <2>4
  <2>6. BufQueued(s, out) = 1 .. n /\ BufQueued(t, out) = 1 .. n + 1
    BY <2>5 DEF BufQueued
  <2> HIDE DEF n
  <2>7. \A p \in Ports : \A j \in BufQueued(t, p) :
          \/ p = out /\ j = n + 1 /\ t.txq[p][j] = w
          \/ ~(p = out /\ j = n + 1) /\ j \in BufQueued(s, p) /\ t.txq[p][j] = s.txq[p][j]
    <3>1. \A j \in 1 .. n + 1 : j = n + 1 \/ (j # n + 1 /\ j \in 1 .. n)
      BY <2>2
    <3> QED BY <2>3, <2>5, <2>6, <3>1
  <2>8. \A p \in Ports : \A j \in BufQueued(s, p) : j \in BufQueued(t, p) /\ t.txq[p][j] = s.txq[p][j]
    <3>1. \A j \in 1 .. n : j \in 1 .. n + 1
      BY <2>2
    <3> QED BY <2>3, <2>5, <2>6, <3>1
  <2>9. BufPhase(t)
    <3>1. \A p \in Ports : Len(t.txq[p]) <= BufBurst
      <4>1. n + 1 <= BufBurst
        BY <2>1, <2>2, BufAssumption DEF n
      <4> QED BY <1>1, <2>3, <2>5, <4>1 DEF BufPhase
    <3> QED BY <1>1, <1>10, <1>12, <3>1 DEF BufPhase
  <2>10. \A i \in BufWaits(t) : t.inflight[i].b \in Buffer /\ t.inflight[i].b # w.b /\ holder[t.inflight[i].b] = BufMine(c) /\ t.inflight[i].disp = "held"
    BY <1>1, <1>4, <1>13, <1>14, BufPlaces DEF BufHas, BufApart, BufOwned, w
  <2>11. \A p \in Ports : \A j \in BufQueued(s, p) :
          s.txq[p][j].b \in Buffer /\ s.txq[p][j].b # w.b /\ holder[s.txq[p][j].b] = BufMine(c)
    BY <1>1, <1>4, BufPlaces DEF BufHas, BufApart, BufOwned, w
  <2>12. BufApart(t)
    <3>1. \A i, j \in BufWaits(t) : t.inflight[i].b = t.inflight[j].b => i = j
      BY <1>1, <1>13, <1>14 DEF BufHas, BufApart
    <3>2. \A p \in Ports : \A i \in BufWaits(t), j \in BufQueued(t, p) : t.inflight[i].b # t.txq[p][j].b
      BY <1>1, <1>13, <1>14, <2>7, <2>10 DEF BufHas, BufApart
    <3>3. \A p, q \in Ports : \A i \in BufQueued(t, p), j \in BufQueued(t, q) :
            t.txq[p][i].b = t.txq[q][j].b => p = q /\ i = j
      BY <1>1, <2>7, <2>11 DEF BufHas, BufApart
    <3> QED BY <3>1, <3>2, <3>3 DEF BufApart
  <2>13. \A x \in Buffer : holder[x] = BufMine(c) => holder'[x] = BufMine(c)
    BY <1>6, <2>1, BufMineIs
  <2>14. BufOwned(t, c, holder')
    <3>1. \A p \in Ports : \A j \in BufQueued(t, p) : holder'[t.txq[p][j].b] = BufMine(c)
      BY <1>5, <2>7, <2>11, <2>13
    <3> QED BY <1>12, <2>10, <2>13, <3>1 DEF BufOwned
  <2>15. BufPlaced(t, c, holder')
    <3>1. ASSUME NEW x \in Buffer, holder'[x].data = c
          PROVE  \/ \E i \in BufWaits(t) : t.inflight[i].b = x
                 \/ \E p \in Ports : \E j \in BufQueued(t, p) : t.txq[p][j].b = x
      <4>1. holder[x].data = c
        BY <1>6, <2>1, <3>1, BufMineIs
      <4>2. CASE \E i \in BufWaits(s) : s.inflight[i].b = x
        <5>1. PICK i \in BufWaits(s) : s.inflight[i].b = x
          BY <4>2
        <5>2. CASE i = s.at
          <6>1. n + 1 \in BufQueued(t, out)
            BY <2>2, <2>6
          <6> QED BY <2>1, <2>5, <5>1, <5>2, <6>1 DEF w
        <5>3. CASE i # s.at
          BY <1>13, <1>14, <5>1, <5>3
        <5> QED BY <5>2, <5>3
      <4>3. CASE \E p \in Ports : \E j \in BufQueued(s, p) : s.txq[p][j].b = x
        BY <2>8, <4>3
      <4> QED BY <1>1, <4>1, <4>2, <4>3 DEF BufHas, BufPlaced
    <3> QED BY <3>1 DEF BufPlaced
  <2>16. BufHas(t, c, holder')
    BY <2>9, <2>12, <2>14, <2>15 DEF BufHas
  <2>17. \A x \in Buffer, d \in Core \ {c} :
        (holder'[x].data = d <=> holder[x].data = d) /\ (holder[x].wqe = d => holder'[x].wqe = d)
    BY <1>6, <2>1, BufMineIs
  <2>18. ready' \in BOOLEAN /\ (ready => ready') /\ ready'
    BY <1>2 DEF BufInv, BufSetUp, s
  <2>19. holder' \in BufOwners
    BY <1>6, <2>1
  <2> QED BY <1>8, <1>9, <1>12, <2>16, <2>17, <2>18, <2>19, BufStep
<1> QED BY <1>15, <1>16

\* What is left after the last pass goes back to the pool.
LEMMA BufExpires ==
  ASSUME BufInv, NEW c \in Core, BufExpire(c)
  PROVE  BufInv'
<1> DEFINE s == core[c]
           left == UNION {{s.txq[p][i] : i \in DOMAIN s.txq[p]} : p \in Ports}
           t == [BufIdle EXCEPT !.pc = "rx"]
           Gone(w) == Dispose(holder, c, w)[w.b]
<1>1. s \in BufCore /\ core \in [Core -> BufCore] /\ BufHas(s, c, holder) /\ holder \in BufOwners /\ bad = FALSE /\ BufPhase(s)
  BY DEF BufInv, BufHas
<1>2. s.pc = "flush" /\ s.sent = None /\ ready' = ready /\ core' = [core EXCEPT ![c] = t]
      /\ bad' = (bad \/ Wrong(holder, c, holder'))
  BY DEF BufExpire
<1>3. holder' = [b \in Buffer |-> IF \E w \in left : w.b = b THEN Gone(CHOOSE w \in left : w.b = b) ELSE holder[b]]
  BY DEF BufExpire
<1>4. \A w \in left : \E p \in Ports : \E j \in BufQueued(s, p) : w = s.txq[p][j]
  <2>1. \A p \in Ports : s.txq[p] \in Seq(BufWork)
    BY <1>1 DEF BufCore
  <2> HIDE DEF s
  <2> QED BY <2>1 DEF BufQueued
<1>5. \A p \in Ports : \A j \in BufQueued(s, p) : s.txq[p][j] \in left
  <2>1. \A p \in Ports : s.txq[p] \in Seq(BufWork)
    BY <1>1 DEF BufCore
  <2> HIDE DEF s
  <2> QED BY <2>1 DEF BufQueued
<1> HIDE DEF left
<1>6. \A w \in left : w \in BufWork /\ w.b \in Buffer /\ holder[w.b] = BufMine(c)
  BY <1>1, <1>4, BufPlaces DEF BufHas, BufOwned
<1>7. ASSUME NEW w \in left PROVE Gone(w) = Pool
  <2>1. Dispose(holder, c, w) = [holder EXCEPT ![w.b] = Pool]
    BY <1>1, <1>6, DisposeIs
  <2> QED BY <1>1, <1>6, <2>1 DEF BufOwners
<1> HIDE DEF Gone
<1>8. ASSUME NEW b \in Buffer
      PROVE  /\ (\E w \in left : w.b = b) => holder'[b] = Pool /\ holder[b] = BufMine(c)
             /\ ~(\E w \in left : w.b = b) => holder'[b] = holder[b]
  <2>1. CASE \E w \in left : w.b = b
    <3>1. (CHOOSE w \in left : w.b = b) \in left
      BY <2>1
    <3>2. holder'[b] = Gone(CHOOSE w \in left : w.b = b)
      BY <1>3, <2>1
    <3>3. Gone(CHOOSE w \in left : w.b = b) = Pool
      BY <1>7, <3>1
    <3> QED BY <1>6, <2>1, <3>2, <3>3
  <2>2. CASE ~\E w \in left : w.b = b
    BY <1>3, <2>2
  <2> QED BY <2>1, <2>2
<1>9. holder' \in BufOwners
  <2>1. \A b \in Buffer : holder'[b] \in [data : BufOwner, wqe : BufOwner]
    BY <1>1, <1>8 DEF BufOwners, BufOwner, Pool
  <2> QED BY <1>3, <2>1 DEF BufOwners
<1>10. bad' = FALSE
  <2>1. ~Wrong(holder, c, holder')
    BY <1>8, BufMineIs DEF Wrong
  <2> QED BY <1>1, <1>2, <2>1
<1>11. t \in BufCore /\ t.pc = "rx" /\ t.inflight = <<>> /\ t.at = 1 /\ t.examined = 0 /\ t.sent = None /\ \A p \in Ports : t.txq[p] = <<>>
  BY BufIdleIs DEF BufCore
<1> HIDE DEF t
<1>12. BufPhase(t)
  BY <1>11, BufAssumption DEF BufPhase
<1>13. BufWaits(t) = {} /\ \A p \in Ports : BufQueued(t, p) = {}
  BY <1>11 DEF BufWaits, BufQueued
<1>14. ASSUME NEW b \in Buffer PROVE holder'[b].data # c
  <2>1. SUFFICES ASSUME ~\E w \in left : w.b = b PROVE holder[b].data # c
    BY <1>8, BufMineIs
  <2>2. BufWaits(s) = {}
    BY <1>1, <1>2 DEF BufPhase, BufWaits
  <2> QED BY <1>1, <1>5, <2>1, <2>2 DEF BufHas, BufPlaced
<1>15. BufHas(t, c, holder')
  BY <1>11, <1>12, <1>13, <1>14 DEF BufHas, BufApart, BufOwned, BufPlaced
<1>16. \A b \in Buffer, d \in Core \ {c} :
        (holder'[b].data = d <=> holder[b].data = d) /\ (holder[b].wqe = d => holder'[b].wqe = d)
  BY <1>8, BufMineIs
<1>17. ready' \in BOOLEAN /\ (ready => ready') /\ ready'
  BY <1>2 DEF BufInv, BufSetUp
<1> QED BY <1>2, <1>9, <1>10, <1>11, <1>15, <1>16, <1>17, BufStep

\* PKO returns what it has sent.
LEMMA BufReturns ==
  ASSUME BufInv, NEW x \in Buffer, PkoDone(x)
  PROVE  BufInv'
<1>1. holder \in BufOwners /\ holder[x].data = "pko" /\ UNCHANGED <<core, ready, bad>>
  BY DEF BufInv, PkoDone
<1>2. holder' = [holder EXCEPT ![x] = [data |-> "pool", wqe |-> IF holder[x].wqe = "pko" THEN "pool" ELSE holder[x].wqe]]
  BY DEF PkoDone
<1>3. holder' \in BufOwners /\ \A b \in Buffer \ {x} : holder'[b] = holder[b]
  BY <1>1, <1>2 DEF BufOwners, BufOwner
<1>4. holder'[x].data = "pool" /\ (holder[x].wqe # "pko" => holder'[x].wqe = holder[x].wqe)
  BY <1>1, <1>2 DEF BufOwners
<1>5. ASSUME NEW d \in Core PROVE BufHas(core[d], d, holder')
  <2>1. core[d] \in BufCore /\ BufHas(core[d], d, holder)
    BY DEF BufInv
  <2>2. \A b \in Buffer : (holder'[b].data = d <=> holder[b].data = d) /\ (holder[b].wqe = d => holder'[b].wqe = d)
    BY <1>1, <1>3, <1>4, BufMineIs
  <2> QED BY <1>1, <1>3, <2>1, <2>2, BufKept
<1> QED BY <1>1, <1>3, <1>5 DEF BufInv, BufSetUp

LEMMA BufInitInv == BufInit => BufInv
<1> SUFFICES ASSUME BufInit PROVE BufInv
  OBVIOUS
<1>1. core \in [Core -> BufCore] /\ \A c \in Core : core[c] = BufIdle
  BY BufIdleIs DEF BufInit
<1>2. holder \in BufOwners /\ ready \in BOOLEAN /\ bad = FALSE /\ \A b \in Buffer : holder[b] = Pool
  BY DEF BufInit, BufOwners, BufOwner, Pool
<1>3. BufSetUp
  BY <1>1, BufIdleIs, BufAssumption DEF BufSetUp
<1>4. ASSUME NEW c \in Core PROVE BufHas(core[c], c, holder)
  <2>1. BufWaits(core[c]) = {} /\ \A p \in Ports : BufQueued(core[c], p) = {}
    BY <1>1, BufIdleIs DEF BufWaits, BufQueued
  <2>2. BufPhase(core[c])
    BY <1>1, BufIdleIs, BufAssumption DEF BufPhase
  <2>3. \A b \in Buffer : holder[b].data # c
    BY <1>2, BufMineIs
  <2> QED BY <1>1, <2>1, <2>2, <2>3, BufIdleIs DEF BufHas, BufApart, BufOwned, BufPlaced
<1> QED BY <1>1, <1>2, <1>3, <1>4 DEF BufInv

LEMMA BufStepInv == BufInv /\ [BufNext]_bufVars => BufInv'
<1> SUFFICES ASSUME BufInv, [BufNext]_bufVars PROVE BufInv'
  OBVIOUS
<1>1. CASE UNCHANGED bufVars
  BY <1>1 DEF bufVars, BufInv, BufSetUp
<1>2. ASSUME NEW c \in Core, Step(c) PROVE BufInv'
  <2>1. CASE HwInit(c) \/ Barrier(c) \/ RxNone(c) \/ SendNext(c)
    BY <2>1, BufSetUpSteps
  <2>2. CASE \E b \in Buffer, separate, good \in BOOLEAN : Rx(c, b, separate, good)
    BY <2>2, BufReceives
  <2>3. CASE \E out \in Ports \cup {None}, b \in InPool \cup {None} : BufProcess(c, out, b)
    BY <2>3, BufProcesses
  <2>4. CASE ProcessEnd(c)
    BY <2>4, BufProcessEnds
  <2>5. CASE SendOk(c) \/ SendRejected(c)
    BY <2>5, BufSends
  <2>6. CASE DisposeSent(c)
    BY <2>6, BufDisposesSent
  <2>7. CASE BufExpire(c)
    BY <2>7, BufExpires
  <2> QED BY <1>2, <2>1, <2>2, <2>3, <2>4, <2>5, <2>6, <2>7 DEF Step
<1>3. CASE \E b \in Buffer : PkoDone(b)
  BY <1>3, BufReturns
<1> QED BY <1>1, <1>2, <1>3 DEF BufNext

\* A buffer a core has is in one place, so the sets NothingLeaks counts have one member together.
LEMMA BufInvLeaks == BufInv => NothingLeaks
<1> SUFFICES ASSUME BufInv, NEW c \in Core, NEW b \in Buffer, holder[b].data = c
             PROVE  LET s == core[c]
                        waiting == {i \in s.at .. Len(s.inflight) : s.inflight[i].b = b /\ s.inflight[i].disp = "held"}
                        queued == {q \in Ports \X (1 .. BufBurst) : q[2] <= Len(s.txq[q[1]]) /\ s.txq[q[1]][q[2]].b = b}
                    IN  Cardinality(waiting) + Cardinality(queued) = 1 /\ (s.pc = "rx" => queued = {})
  BY DEF NothingLeaks
<1> DEFINE s == core[c]
           waiting == {i \in s.at .. Len(s.inflight) : s.inflight[i].b = b /\ s.inflight[i].disp = "held"}
           queued == {q \in Ports \X (1 .. BufBurst) : q[2] <= Len(s.txq[q[1]]) /\ s.txq[q[1]][q[2]].b = b}
<1>1. s \in BufCore /\ BufHas(s, c, holder)
  BY DEF BufInv
<1> HIDE DEF s
<1>2. Len(s.inflight) \in Nat /\ s.at \in Nat \ {0} /\ \A p \in Ports : s.txq[p] \in Seq(BufWork) /\ Len(s.txq[p]) \in Nat /\ Len(s.txq[p]) <= BufBurst
  BY <1>1 DEF BufCore, BufHas, BufPhase
<1>3. waiting = {i \in BufWaits(s) : s.inflight[i].b = b}
  <2>1. \A i : i \in s.at .. Len(s.inflight) <=> i \in BufWaits(s)
    BY <1>2 DEF BufWaits
  <2>2. \A i \in BufWaits(s) : s.inflight[i].disp = "held"
    BY <1>1 DEF BufHas, BufOwned
  <2> QED BY <2>1, <2>2
<1>4. \A q : q \in queued <=> \E p \in Ports : \E j \in BufQueued(s, p) : q = <<p, j>> /\ s.txq[p][j].b = b
  <2>1. ASSUME NEW q \in queued PROVE \E p \in Ports : \E j \in BufQueued(s, p) : q = <<p, j>> /\ s.txq[p][j].b = b
    <3>1. q[1] \in Ports /\ q[2] \in 1 .. BufBurst /\ q = <<q[1], q[2]>> /\ q[2] <= Len(s.txq[q[1]]) /\ s.txq[q[1]][q[2]].b = b
      BY <2>1
    <3>2. q[2] \in BufQueued(s, q[1])
      BY <1>2, <3>1, BufAssumption DEF BufQueued
    <3> QED BY <3>1, <3>2
  <2>2. ASSUME NEW p \in Ports, NEW j \in BufQueued(s, p), s.txq[p][j].b = b PROVE <<p, j>> \in queued
    <3>1. j \in 1 .. BufBurst /\ j <= Len(s.txq[p])
      BY <1>2, BufAssumption DEF BufQueued
    <3> QED BY <2>2, <3>1
  <2> QED BY <2>1, <2>2
<1> HIDE DEF waiting, queued
<1>5. CASE \E i \in BufWaits(s) : s.inflight[i].b = b
  <2>1. PICK i \in BufWaits(s) : s.inflight[i].b = b
    BY <1>5
  <2>2. waiting = {i}
    BY <1>1, <1>3, <2>1 DEF BufHas, BufApart
  <2>3. queued = {}
    BY <1>1, <1>4, <2>1 DEF BufHas, BufApart
  <2>4. Cardinality(waiting) = 1 /\ Cardinality(queued) = 0
    BY <2>2, <2>3, FS_Singleton, FS_EmptySet
  <2>5. Cardinality(waiting) + Cardinality(queued) = 1 /\ (s.pc = "rx" => queued = {})
    BY <2>3, <2>4
  <2> QED BY ONLY <2>5 DEF s, waiting, queued
<1>6. CASE \E p \in Ports : \E j \in BufQueued(s, p) : s.txq[p][j].b = b
  <2>1. PICK p \in Ports : \E j \in BufQueued(s, p) : s.txq[p][j].b = b
    BY <1>6
  <2>2. PICK j \in BufQueued(s, p) : s.txq[p][j].b = b
    BY <2>1
  <2>3. waiting = {}
    BY <1>1, <1>3, <2>2 DEF BufHas, BufApart
  <2>4. queued = {<<p, j>>}
    BY <1>1, <1>4, <2>2 DEF BufHas, BufApart
  <2>5. Cardinality(waiting) = 0 /\ Cardinality(queued) = 1
    BY <2>3, <2>4, FS_Singleton, FS_EmptySet
  <2>6. s.pc # "rx"
    BY <1>1, <2>2 DEF BufHas, BufPhase, BufQueued
  <2>7. Cardinality(waiting) + Cardinality(queued) = 1 /\ (s.pc = "rx" => queued = {})
    BY <2>5, <2>6
  <2> QED BY ONLY <2>7 DEF s, waiting, queued
<1> QED BY <1>1, <1>5, <1>6 DEF BufHas, BufPlaced, s

\* Every buffer has one holder: none is released by a core that does not have
\* it, none a core has is out of its queues, and no core polls before the queues
\* of its ports are known - for any cores, ports, buffers, bursts and passes.
THEOREM BuffersSafe == BufSpec => []BufSafe
<1>1. BufInv => BufSafe
  <2> SUFFICES ASSUME BufInv PROVE BufSafe
    OBVIOUS
  <2>1. ASSUME NEW c \in Core
        PROVE  /\ core[c].pc \in {"init", "barrier", "rx", "process", "flush"}
               /\ Len(core[c].inflight) <= BufBurst /\ core[c].examined <= BufBurst
               /\ \A p \in Ports : Len(core[c].txq[p]) <= BufBurst
    <3>1. core[c] \in BufCore /\ BufPhase(core[c])
      BY DEF BufInv, BufHas
    <3>2. core[c].examined \in 0 .. BufBurst /\ core[c].pc \in {"init", "barrier", "rx", "process", "flush"}
      BY <3>1 DEF BufCore
    <3> QED BY <3>1, <3>2, BufAssumption DEF BufPhase
  <2>2. BufTypeOK
    BY <2>1 DEF BufInv, BufTypeOK, BufOwners
  <2> QED BY <2>2, BufInvLeaks DEF BufInv, BufSetUp, BufSafe, NeverFreedTwice, QueuesResolved
<1> QED BY <1>1, BufInitInv, BufStepInv, PTL DEF BufSpec

-----------------------------------------------------------------------------
(* The flow table.  Distances go round the table: from b on to a.          *)
FlowDist(a, b) == (a - b) % FlowN
\* How far the entry at x is from its home.
FlowOff(t, x) == FlowDist(x, FlowHome[t[x].key])
FlowTables == [FlowSlot -> FlowEntry \cup {FlowFree}]
\* Every slot from its home to an entry is used, within the window.
FlowReached(t, x) ==
  /\ FlowOff(t, x) < Window
  /\ \A y \in FlowSlot : FlowDist(y, FlowHome[t[x].key]) <= FlowOff(t, x) => t[y] # FlowFree
FlowWell(t) ==
  /\ t \in FlowTables
  /\ \A x \in FlowUsed(t) : FlowReached(t, x)
  /\ \A x, y \in FlowUsed(t) : t[x].key = t[y].key => x = y

LEMMA FlowDistIs ==
  ASSUME NEW a \in FlowSlot, NEW b \in FlowSlot
  PROVE  /\ FlowDist(a, b) \in FlowSlot
         /\ a >= b => FlowDist(a, b) = a - b
         /\ a < b => FlowDist(a, b) = a - b + FlowN
<1>1. FlowN \in Nat \ {0} /\ a \in 0 .. FlowN - 1 /\ b \in 0 .. FlowN - 1
  BY FlowAssumption DEF FlowSlot
<1>2. CASE a >= b
  BY <1>1, <1>2, SmallMod DEF FlowDist, FlowSlot
<1>3. CASE a < b
  <2>1. a - b + FlowN \in 0 .. FlowN - 1 /\ a - b = FlowN * (-1) + (a - b + FlowN)
    BY <1>1, <1>3
  <2>2. (FlowN * (-1) + (a - b + FlowN)) % FlowN = a - b + FlowN
    BY <1>1, <2>1, ModUnique
  <2> QED BY <1>1, <1>3, <2>1, <2>2 DEF FlowDist, FlowSlot
<1> QED BY <1>1, <1>2, <1>3

\* The slot m after b.
LEMMA FlowSlotAt ==
  ASSUME NEW b \in FlowSlot, NEW m \in FlowSlot
  PROVE  (b + m) % FlowN \in FlowSlot /\ FlowDist((b + m) % FlowN, b) = m
<1>1. FlowN \in Nat \ {0} /\ m \in 0 .. FlowN - 1 /\ b \in 0 .. FlowN - 1
  BY FlowAssumption DEF FlowSlot
<1>2. CASE b + m < FlowN
  <2>1. (b + m) % FlowN = b + m /\ b + m \in FlowSlot
    BY <1>1, <1>2, SmallMod DEF FlowSlot
  <2> QED BY <1>1, <2>1, FlowDistIs
<1>3. CASE b + m >= FlowN
  <2>1. b + m - FlowN \in 0 .. FlowN - 1 /\ b + m = FlowN * 1 + (b + m - FlowN)
    BY <1>1, <1>3
  <2>2. (FlowN * 1 + (b + m - FlowN)) % FlowN = b + m - FlowN
    BY <1>1, <2>1, ModUnique
  <2>3. (b + m) % FlowN = b + m - FlowN /\ b + m - FlowN \in FlowSlot /\ b + m - FlowN < b
    BY <1>1, <2>1, <2>2 DEF FlowSlot
  <2> QED BY <1>1, <2>3, FlowDistIs
<1> QED BY <1>1, <1>2, <1>3

\* A distance determines its slot.
LEMMA FlowDistOnto ==
  ASSUME NEW a \in FlowSlot, NEW b \in FlowSlot
  PROVE  a = (b + FlowDist(a, b)) % FlowN
<1>1. FlowDist(a, b) \in FlowSlot
  BY FlowDistIs
<1> DEFINE c == (b + FlowDist(a, b)) % FlowN
<1>2. c \in FlowSlot /\ FlowDist(c, b) = FlowDist(a, b)
  BY <1>1, FlowSlotAt
<1> HIDE DEF c
<1>3. FlowN \in Nat \ {0} /\ a \in 0 .. FlowN - 1 /\ b \in 0 .. FlowN - 1 /\ c \in 0 .. FlowN - 1
  BY <1>2, FlowAssumption DEF FlowSlot
<1>4. a = c
  BY <1>2, <1>3, FlowDistIs
<1> QED BY <1>4 DEF c

\* A slot between b and a splits their distance.
LEMMA FlowBetween ==
  ASSUME NEW a \in FlowSlot, NEW b \in FlowSlot, NEW c \in FlowSlot, FlowDist(c, b) <= FlowDist(a, b)
  PROVE  FlowDist(a, c) = FlowDist(a, b) - FlowDist(c, b)
<1>1. FlowN \in Nat \ {0} /\ a \in 0 .. FlowN - 1 /\ b \in 0 .. FlowN - 1 /\ c \in 0 .. FlowN - 1
  BY FlowAssumption DEF FlowSlot
<1> QED BY <1>1, FlowDistIs

\* The next slot.
LEMMA FlowNextSlot ==
  ASSUME NEW j \in FlowSlot, NEW h \in FlowSlot
  PROVE  LET i == (j + 1) % FlowN
         IN  /\ i \in FlowSlot
             /\ i = h <=> FlowDist(j, h) = FlowN - 1
             /\ i # h => FlowDist(i, h) = FlowDist(j, h) + 1
<1> DEFINE i == (j + 1) % FlowN
<1>1. FlowN \in Nat \ {0} /\ j \in 0 .. FlowN - 1 /\ h \in 0 .. FlowN - 1
  BY FlowAssumption DEF FlowSlot
<1>2. i = IF j = FlowN - 1 THEN 0 ELSE j + 1
  <2>1. CASE j = FlowN - 1
    BY <1>1, <2>1
  <2>2. CASE j # FlowN - 1
    <3>1. j + 1 \in 0 .. FlowN - 1
      BY <1>1, <2>2
    <3> QED BY <1>1, <2>2, <3>1, SmallMod
  <2> QED BY <2>1, <2>2
<1> HIDE DEF i
<1>3. i \in FlowSlot
  BY <1>1, <1>2 DEF FlowSlot
<1>4. /\ j >= h => FlowDist(j, h) = j - h
      /\ j < h => FlowDist(j, h) = j - h + FlowN
      /\ i >= h => FlowDist(i, h) = i - h
      /\ i < h => FlowDist(i, h) = i - h + FlowN
  BY <1>3, FlowDistIs
<1> QED BY <1>1, <1>2, <1>3, <1>4 DEF i

\* The walk of FlowRemove, as its recursion defines it.
FlowRun(t, s) ==
  CHOOSE g : g = [n \in 0 .. Window * FlowN |->
                    IF n = 0 THEN [tab |-> t, hole |-> s, j |-> s, done |-> FALSE]
                    ELSE FlowThe({Shift(w) : w \in {g[n - 1]}})]
LEMMA FlowRemoveRuns ==
  ASSUME NEW t, NEW s
  PROVE  LET end == FlowRun(t, s)[Window * FlowN]
         IN  FlowRemove(t, s) = [end.tab EXCEPT ![end.hole] = FlowFree]
BY DEF FlowRemove, FlowRun

\* One step of the walk.
FlowWalk == [tab : FlowTables, hole : FlowSlot, j : FlowSlot, done : BOOLEAN]
FlowAhead(w) == (w.j + 1) % FlowN
FlowStops(w) == w.done \/ w.tab[FlowAhead(w)] = FlowFree \/ FlowAhead(w) = w.hole
FlowMoves(w) == FlowDist(w.hole, FlowHome[w.tab[FlowAhead(w)].key]) < FlowOff(w.tab, FlowAhead(w))
LEMMA ShiftIs ==
  ASSUME NEW w \in FlowWalk
  PROVE  /\ FlowAhead(w) \in FlowSlot /\ Shift(w) \in FlowWalk
         /\ FlowStops(w) => /\ Shift(w).tab = w.tab /\ Shift(w).hole = w.hole /\ Shift(w).j = w.j /\ Shift(w).done
         /\ ~FlowStops(w) /\ FlowMoves(w) =>
              /\ Shift(w).tab = [w.tab EXCEPT ![w.hole] = w.tab[FlowAhead(w)]]
              /\ Shift(w).hole = FlowAhead(w) /\ Shift(w).j = FlowAhead(w) /\ ~Shift(w).done
         /\ ~FlowStops(w) /\ ~FlowMoves(w) =>
              /\ Shift(w).tab = w.tab /\ Shift(w).hole = w.hole /\ Shift(w).j = FlowAhead(w) /\ ~Shift(w).done
<1> DEFINE i == FlowAhead(w)
           e == w.tab[i]
<1>1. i \in FlowSlot
  BY FlowNextSlot DEF FlowAhead, FlowWalk
<1>2. w.tab \in [FlowSlot -> FlowEntry \cup {FlowFree}] /\ w.hole \in FlowSlot /\ w.j \in FlowSlot /\ w.done \in BOOLEAN
  BY DEF FlowWalk, FlowTables
<1>3. CASE FlowStops(w)
  <2>1. Shift(w) = [w EXCEPT !.done = TRUE]
    BY <1>3 DEF Shift, FlowStops, FlowAhead
  <2> QED BY <1>1, <1>3, <2>1 DEF FlowWalk
<1>4. CASE ~FlowStops(w) /\ FlowMoves(w)
  <2>1. Shift(w) = [w EXCEPT !.tab[w.hole] = e, !.hole = i, !.j = i]
    BY <1>4 DEF Shift, FlowStops, FlowMoves, FlowAhead, FlowOff, FlowDist
  <2> DEFINE tab2 == [w.tab EXCEPT ![w.hole] = e]
  <2>2. tab2 \in FlowTables
    BY <1>1, <1>2 DEF FlowTables
  <2>3. [w EXCEPT !.tab[w.hole] = e, !.hole = i, !.j = i] = [w EXCEPT !.tab = tab2, !.hole = i, !.j = i]
    BY DEF FlowWalk
  <2>4. ~w.done
    BY <1>4 DEF FlowStops
  <2> HIDE DEF tab2, i
  <2>5. Shift(w) \in FlowWalk /\ Shift(w).tab = tab2 /\ Shift(w).hole = i /\ Shift(w).j = i /\ ~Shift(w).done
    BY <1>1, <1>2, <2>1, <2>2, <2>3, <2>4 DEF FlowWalk
  <2> QED BY <1>1, <1>4, <2>5 DEF i, tab2
<1>5. CASE ~FlowStops(w) /\ ~FlowMoves(w)
  <2>1. Shift(w) = [w EXCEPT !.j = i]
    BY <1>5 DEF Shift, FlowStops, FlowMoves, FlowAhead, FlowOff, FlowDist
  <2>2. ~w.done
    BY <1>5 DEF FlowStops
  <2> HIDE DEF i
  <2>3. Shift(w) \in FlowWalk /\ Shift(w).tab = w.tab /\ Shift(w).hole = w.hole /\ Shift(w).j = i /\ ~Shift(w).done
    BY <1>1, <1>2, <2>1, <2>2 DEF FlowWalk
  <2> QED BY <1>1, <1>5, <2>3 DEF i
<1> QED BY <1>3, <1>4, <1>5

\* The run of the walk starts at the hole and goes on by Shift.
LEMMA FlowRunSteps ==
  ASSUME NEW t \in FlowTables, NEW s \in FlowSlot
  PROVE  /\ FlowRun(t, s)[0] = [tab |-> t, hole |-> s, j |-> s, done |-> FALSE]
         /\ \A n \in 0 .. Window * FlowN : n < Window * FlowN => FlowRun(t, s)[n + 1] = Shift(FlowRun(t, s)[n])
<1> DEFINE M == Window * FlowN
           a == [tab |-> t, hole |-> s, j |-> s, done |-> FALSE]
           G == [w \in FlowWalk |-> Shift(w)]
           Is(g) == g = [n \in 0 .. M |-> IF n = 0 THEN a ELSE FlowThe({Shift(w) : w \in {g[n - 1]}})]
<1>1. M \in Nat
  BY FlowAssumption
<1>2. a \in FlowWalk
  BY DEF FlowWalk
<1>3. G \in [FlowWalk -> FlowWalk]
  BY ShiftIs
<1>4. \A w : FlowThe({Shift(v) : v \in {w}}) = Shift(w)
  BY DEF FlowThe
<1> HIDE DEF M, a
<1> DEFINE H == [n \in 1 .. M |-> G]
<1> HIDE DEF G
<1>40. H \in [1 .. M -> [FlowWalk -> FlowWalk]] /\ \A n \in 1 .. M : H[n] = G
  BY <1>3
<1> HIDE DEF H
<1>5. PICK f \in StepRuns(FlowWalk, a, M, H) : TRUE
  <2> DEFINE St == FlowWalk
  <2>1. H \in [1 .. M -> [St -> St]] /\ a \in St
    BY <1>2, <1>40
  <2> HIDE DEF St
  <2>2. StepRuns(St, a, M, H) # {}
    BY <1>1, <2>1, StepsExist
  <2> QED BY <2>2 DEF St
<1>50. f \in [0 .. M -> FlowWalk] /\ f[0] = a /\ \A n \in 1 .. M : f[n] = H[n][f[n - 1]]
  BY ONLY <1>5 DEF StepRuns
<1>6. ASSUME NEW n \in 0 .. M PROVE f[n] = IF n = 0 THEN a ELSE FlowThe({Shift(w) : w \in {f[n - 1]}})
  <2>1. CASE n = 0
    BY <1>50, <2>1
  <2>2. CASE n # 0
    <3>1. n \in 1 .. M /\ n - 1 \in 0 .. M
      BY <1>1, <2>2
    <3>2. f[n] = Shift(f[n - 1])
      BY <1>40, <1>50, <3>1 DEF G
    <3> QED BY <1>4, <2>2, <3>2
  <2> QED BY <2>1, <2>2
<1>7. Is(f)
  BY <1>50, <1>6
<1> DEFINE W == FlowRun(t, s)
<1>8. W = CHOOSE g : Is(g)
  BY DEF FlowRun, M, a
<1>9. Is(W)
  <2> HIDE DEF Is, W
  <2> QED BY <1>7, <1>8
<1> HIDE DEF W
<1>10. W[0] = a
  BY <1>1, <1>9
<1>11. ASSUME NEW n \in 0 .. M, n < M PROVE W[n + 1] = Shift(W[n])
  <2>1. n + 1 \in 0 .. M /\ n + 1 # 0 /\ n + 1 - 1 = n
    BY <1>1, <1>11
  <2>2. \A m \in 0 .. M : W[m] = IF m = 0 THEN a ELSE FlowThe({Shift(w) : w \in {W[m - 1]}})
    BY <1>9
  <2>3. W[n + 1] = FlowThe({Shift(w) : w \in {W[n + 1 - 1]}})
    BY <2>1, <2>2
  <2> QED BY <1>4, <2>1, <2>3
<1> QED BY <1>10, <1>11 DEF M, a, W

-----------------------------------------------------------------------------
(* The walk keeps every other entry findable and never loses one, and ends *)
(* where no entry needs the hole any more.                                 *)
FlowOthers(w) == FlowUsed(w.tab) \ {w.hole}
FlowSettled(w) == \A x \in FlowOthers(w) : FlowOff(w.tab, x) < FlowDist(x, w.hole)
FlowHeld(w, t, s) ==
  /\ w \in FlowWalk /\ w.hole \in FlowUsed(w.tab) /\ FlowUsed(w.tab) = FlowUsed(t)
  /\ \A x \in FlowOthers(w) : \E y \in FlowUsed(t) \ {s} : w.tab[x] = t[y]
  /\ \A x, y \in FlowOthers(w) : w.tab[x].key = w.tab[y].key => x = y
  /\ \A x \in FlowOthers(w) : FlowReached(w.tab, x)
  /\ \A x \in FlowOthers(w) : FlowDist(x, w.hole) <= FlowDist(w.j, w.hole) => FlowOff(w.tab, x) < FlowDist(x, w.hole)
  /\ w.done => FlowSettled(w)
\* Each round of the table brings every entry one slot closer to its home.
FlowRound(w, s, d, q) ==
  /\ FlowDist(w.j, s) = q
  /\ \A x \in FlowOthers(w) :
       FlowOff(w.tab, x) <= d /\ (FlowDist(x, s) \in 1 .. q => FlowOff(w.tab, x) <= d - 1)
FlowProgress(w, s, n) ==
  FlowSettled(w) \/ \E d \in Int, q \in FlowSlot : n = (Window - 1 - d) * FlowN + q /\ FlowRound(w, s, d, q)

LEMMA FlowEntryAt ==
  ASSUME NEW t \in FlowTables, NEW x \in FlowUsed(t)
  PROVE  /\ x \in FlowSlot /\ t[x] \in FlowEntry /\ t[x].key \in FlowKey /\ FlowHome[t[x].key] \in FlowSlot
         /\ FlowOff(t, x) \in FlowSlot /\ FlowOff(t, x) \in Nat
<1>1. x \in FlowSlot /\ t[x] # FlowFree /\ t[x] \in FlowEntry \cup {FlowFree}
  BY DEF FlowUsed, FlowTables
<1>2. t[x].key \in FlowKey
  BY <1>1 DEF FlowEntry
<1>3. FlowHome[t[x].key] \in FlowSlot
  BY <1>2, FlowAssumption DEF FlowSlot
<1>4. FlowOff(t, x) \in FlowSlot
  BY <1>1, <1>3, FlowDistIs DEF FlowOff
<1> QED BY <1>1, <1>2, <1>3, <1>4 DEF FlowSlot

\* A slot is on the way to an entry when it is not further from the entry's home.
LEMMA FlowOnTheWay ==
  ASSUME NEW x \in FlowSlot, NEW h \in FlowSlot, NEW y \in FlowSlot
  PROVE  /\ FlowDist(x, h) \in Nat /\ FlowDist(x, h) < FlowN
         /\ FlowDist(y, h) <= FlowDist(x, h) <=> FlowDist(x, y) <= FlowDist(x, h)
         /\ FlowDist(y, h) <= FlowDist(x, h) => FlowDist(x, y) = FlowDist(x, h) - FlowDist(y, h)
         /\ FlowDist(x, y) = 0 <=> x = y
<1>1. FlowN \in Nat \ {0} /\ x \in 0 .. FlowN - 1 /\ h \in 0 .. FlowN - 1 /\ y \in 0 .. FlowN - 1
  BY FlowAssumption DEF FlowSlot
<1>2. FlowDist(x, h) = IF x >= h THEN x - h ELSE x - h + FlowN
  BY <1>1, FlowDistIs
<1>3. FlowDist(y, h) = IF y >= h THEN y - h ELSE y - h + FlowN
  BY <1>1, FlowDistIs
<1>4. FlowDist(x, y) = IF x >= y THEN x - y ELSE x - y + FlowN
  BY <1>1, FlowDistIs
<1> QED BY <1>1, <1>2, <1>3, <1>4

\* Once no entry needs the hole, none moves into it.
LEMMA FlowSettledStays ==
  ASSUME NEW w \in FlowWalk, FlowSettled(w), ~FlowStops(w)
  PROVE  ~FlowMoves(w)
<1> DEFINE i == FlowAhead(w)
           h == FlowHome[w.tab[i].key]
<1>1. w.tab \in FlowTables /\ w.hole \in FlowSlot /\ w.j \in FlowSlot /\ i \in FlowSlot
  BY ShiftIs DEF FlowWalk
<1>2. i # w.hole /\ i \in FlowUsed(w.tab) /\ i \in FlowOthers(w)
  BY <1>1 DEF FlowStops, FlowUsed, FlowOthers
<1>3. h \in FlowSlot
  BY <1>1, <1>2, FlowEntryAt
<1>4. FlowOff(w.tab, i) < FlowDist(i, w.hole)
  BY <1>2 DEF FlowSettled
<1>5. FlowOff(w.tab, i) = FlowDist(i, h)
  BY DEF FlowOff
<1> HIDE DEF i, h
<1>6. ~(FlowDist(w.hole, h) < FlowDist(i, h))
  <2>1. /\ FlowDist(i, h) \in Nat /\ FlowDist(w.hole, h) \in Nat
        /\ FlowDist(w.hole, h) <= FlowDist(i, h) => FlowDist(i, w.hole) = FlowDist(i, h) - FlowDist(w.hole, h)
    BY <1>1, <1>3, FlowOnTheWay
  <2> QED BY <1>4, <1>5, <2>1
<1> QED BY <1>5, <1>6 DEF FlowMoves, i, h

\* Where the walk stops, no entry needs the hole.
LEMMA FlowStopSettles ==
  ASSUME NEW w, NEW t, NEW s, FlowHeld(w, t, s), FlowStops(w)
  PROVE  FlowSettled(w)
<1> DEFINE i == FlowAhead(w)
<1>1. /\ w \in FlowWalk /\ w.tab \in FlowTables /\ w.hole \in FlowSlot /\ w.j \in FlowSlot /\ i \in FlowSlot
      /\ w.hole \in FlowUsed(w.tab)
  BY ShiftIs DEF FlowHeld, FlowWalk
<1>2. CASE w.done
  BY <1>2 DEF FlowHeld
<1>3. CASE ~w.done
  <2> SUFFICES ASSUME NEW x \in FlowOthers(w), ~(FlowOff(w.tab, x) < FlowDist(x, w.hole)) PROVE FALSE
    BY DEF FlowSettled
  <2> DEFINE h == FlowHome[w.tab[x].key]
  <2>1. x \in FlowUsed(w.tab) /\ x # w.hole
    BY DEF FlowOthers
  <2>2. x \in FlowSlot /\ h \in FlowSlot
    BY <1>1, <2>1, FlowEntryAt
  <2>3. FlowOff(w.tab, x) = FlowDist(x, h)
    BY DEF FlowOff
  <2>4. FlowReached(w.tab, x)
    BY DEF FlowHeld
  <2>5. \A y \in FlowSlot : FlowDist(y, h) <= FlowDist(x, h) => w.tab[y] # FlowFree
    BY <2>3, <2>4 DEF FlowReached
  <2>6. FlowDist(x, w.hole) > FlowDist(w.j, w.hole)
    <3>1. FlowDist(x, w.hole) <= FlowDist(w.j, w.hole) => FlowOff(w.tab, x) < FlowDist(x, w.hole)
      BY DEF FlowHeld
    <3>2. FlowDist(x, w.hole) \in Nat /\ FlowDist(w.j, w.hole) \in Nat
      BY <1>1, <2>2, FlowOnTheWay
    <3> QED BY <3>1, <3>2
  <2> HIDE DEF i, h
  <2>7. FlowDist(x, w.hole) \in Nat /\ FlowDist(w.j, w.hole) \in Nat /\ FlowDist(x, h) \in Nat /\ FlowDist(x, w.hole) < FlowN
    BY <1>1, <2>2, FlowOnTheWay
  <2>8. i # w.hole /\ FlowDist(i, w.hole) = FlowDist(w.j, w.hole) + 1
    <3>1. /\ i = w.hole <=> FlowDist(w.j, w.hole) = FlowN - 1
          /\ i # w.hole => FlowDist(i, w.hole) = FlowDist(w.j, w.hole) + 1
      BY <1>1, FlowNextSlot DEF i, FlowAhead
    <3> QED BY <2>6, <2>7, <3>1, FlowAssumption
  <2>9. w.tab[i] = FlowFree
    BY <1>3, <2>8 DEF FlowStops, i
  <2>10. FlowDist(i, w.hole) <= FlowDist(x, w.hole)
    BY <2>6, <2>7, <2>8
  <2>11. FlowDist(x, i) <= FlowDist(x, w.hole)
    BY <1>1, <2>2, <2>10, FlowOnTheWay
  <2>12. FlowDist(x, i) <= FlowDist(x, h) /\ FlowDist(x, i) \in Nat
    BY <1>1, <2>2, <2>3, <2>7, <2>11, FlowOnTheWay
  <2>13. FlowDist(i, h) <= FlowDist(x, h)
    BY <1>1, <2>2, <2>12, FlowOnTheWay
  <2> QED BY <1>1, <2>5, <2>9, <2>13
<1> QED BY <1>2, <1>3

LEMMA FlowMoveHeld ==
  ASSUME NEW w, NEW t, NEW s, FlowHeld(w, t, s), ~FlowStops(w), FlowMoves(w)
  PROVE  /\ FlowHeld(Shift(w), t, s)
         /\ \A x \in FlowOthers(Shift(w)) :
              IF x = w.hole THEN FlowOff(Shift(w).tab, x) < FlowOff(w.tab, FlowAhead(w)) /\ FlowAhead(w) \in FlowOthers(w)
              ELSE FlowOff(Shift(w).tab, x) = FlowOff(w.tab, x) /\ x \in FlowOthers(w)
<1> DEFINE i == FlowAhead(w)
           o == w.hole
           v == Shift(w)
           hm(x) == FlowHome[w.tab[x].key]
<1>1. /\ w \in FlowWalk /\ w.tab \in FlowTables /\ o \in FlowSlot /\ w.j \in FlowSlot /\ i \in FlowSlot
      /\ o \in FlowUsed(w.tab) /\ FlowUsed(w.tab) = FlowUsed(t)
  BY ShiftIs DEF FlowHeld, FlowWalk
<1>2. /\ v \in FlowWalk /\ v.tab = [w.tab EXCEPT ![o] = w.tab[i]] /\ v.hole = i /\ v.j = i /\ ~v.done
  BY <1>1, ShiftIs
<1>3. i # o /\ w.tab[i] # FlowFree /\ i \in FlowOthers(w) /\ i \in FlowUsed(w.tab)
  BY <1>1 DEF FlowStops, FlowOthers, FlowUsed
<1>4. FlowDist(o, hm(i)) < FlowOff(w.tab, i)
  BY DEF FlowMoves
<1>5. v.tab \in FlowTables /\ v.tab[o] = w.tab[i] /\ \A x \in FlowSlot : x # o => v.tab[x] = w.tab[x]
  BY <1>1, <1>2 DEF FlowWalk, FlowTables
<1> HIDE DEF v, i
<1>6. FlowUsed(v.tab) = FlowUsed(w.tab) /\ \A y \in FlowSlot : w.tab[y] # FlowFree => v.tab[y] # FlowFree
  BY <1>1, <1>3, <1>5 DEF FlowUsed
<1>7. ASSUME NEW x \in FlowOthers(v)
      PROVE  /\ x \in FlowUsed(v.tab) /\ x \in FlowSlot /\ x # i
             /\ x = o => v.tab[x] = w.tab[i] /\ FlowOff(v.tab, x) = FlowDist(o, hm(i))
             /\ x # o => x \in FlowOthers(w) /\ v.tab[x] = w.tab[x] /\ FlowOff(v.tab, x) = FlowOff(w.tab, x)
  <2>1. x \in FlowUsed(v.tab) /\ x # i /\ x \in FlowSlot
    BY <1>2, <1>7 DEF FlowOthers, FlowUsed
  <2>2. x = o => v.tab[x] = w.tab[i] /\ FlowOff(v.tab, x) = FlowDist(o, hm(i))
    BY <1>5 DEF FlowOff
  <2>3. x # o => x \in FlowOthers(w) /\ v.tab[x] = w.tab[x] /\ FlowOff(v.tab, x) = FlowOff(w.tab, x)
    BY <1>5, <1>6, <2>1 DEF FlowOff, FlowOthers
  <2> QED BY <2>1, <2>2, <2>3
<1>8. \A x \in FlowOthers(v) : IF x = o THEN FlowOff(v.tab, x) < FlowOff(w.tab, i) /\ i \in FlowOthers(w)
                               ELSE FlowOff(v.tab, x) = FlowOff(w.tab, x) /\ x \in FlowOthers(w)
  BY <1>3, <1>4, <1>7
<1>9. \A x \in FlowOthers(v) : \E y \in FlowUsed(t) \ {s} : v.tab[x] = t[y]
  <2>1. \A x \in FlowOthers(w) : \E y \in FlowUsed(t) \ {s} : w.tab[x] = t[y]
    BY DEF FlowHeld
  <2> QED BY <1>3, <1>7, <2>1
<1>10. ASSUME NEW x \in FlowOthers(v), NEW y \in FlowOthers(v), v.tab[x].key = v.tab[y].key PROVE x = y
  <2>1. \A a, b \in FlowOthers(w) : w.tab[a].key = w.tab[b].key => a = b
    BY DEF FlowHeld
  <2> QED BY <1>3, <1>7, <1>10, <2>1
<1>11. ASSUME NEW x \in FlowOthers(v) PROVE FlowReached(v.tab, x)
  <2>1. CASE x = o
    <3>1. FlowReached(w.tab, i)
      BY <1>3 DEF FlowHeld
    <3>2. v.tab[x] = w.tab[i] /\ FlowOff(v.tab, x) < FlowOff(w.tab, i)
      BY <1>7, <1>8, <2>1
    <3>3. FlowOff(v.tab, x) \in Nat /\ FlowOff(w.tab, i) \in Nat /\ hm(i) \in FlowSlot
      BY <1>1, <1>3, <1>5, <1>7, FlowEntryAt
    <3>4. ASSUME NEW y \in FlowSlot, FlowDist(y, hm(i)) <= FlowOff(v.tab, x) PROVE v.tab[y] # FlowFree
      <4>1. FlowDist(y, hm(i)) \in Nat
        BY <3>3, FlowOnTheWay
      <4>2. FlowDist(y, hm(i)) <= FlowOff(w.tab, i)
        BY <3>2, <3>3, <3>4, <4>1
      <4> QED BY <1>6, <3>1, <4>2 DEF FlowReached
    <3>5. FlowOff(v.tab, x) < Window
      BY <3>1, <3>2, <3>3, FlowAssumption DEF FlowReached
    <3> QED BY <3>2, <3>4, <3>5 DEF FlowReached
  <2>2. CASE x # o
    <3>1. FlowReached(w.tab, x) /\ v.tab[x] = w.tab[x] /\ FlowOff(v.tab, x) = FlowOff(w.tab, x)
      BY <1>7, <2>2 DEF FlowHeld
    <3> QED BY <1>6, <3>1 DEF FlowReached
  <2> QED BY <2>1, <2>2
<1>12. ASSUME NEW x \in FlowOthers(v), FlowDist(x, v.hole) <= FlowDist(v.j, v.hole) PROVE FALSE
  <2>1. FlowDist(i, i) = 0 /\ FlowDist(x, i) \in Nat /\ (FlowDist(x, i) = 0 <=> x = i)
    BY <1>1, <1>7, FlowOnTheWay
  <2> QED BY <1>2, <1>7, <1>12, <2>1
<1>13. v.hole \in FlowUsed(v.tab) /\ FlowUsed(v.tab) = FlowUsed(t)
  BY <1>1, <1>2, <1>3, <1>6
<1>14. FlowHeld(v, t, s)
  BY <1>2, <1>9, <1>10, <1>11, <1>12, <1>13 DEF FlowHeld
<1> QED BY <1>8, <1>14 DEF v, i

LEMMA FlowStayHeld ==
  ASSUME NEW w, NEW t, NEW s, FlowHeld(w, t, s), ~FlowStops(w), ~FlowMoves(w)
  PROVE  /\ FlowHeld(Shift(w), t, s) /\ FlowOthers(Shift(w)) = FlowOthers(w)
         /\ FlowAhead(w) \in FlowOthers(w) /\ FlowOff(w.tab, FlowAhead(w)) < FlowDist(FlowAhead(w), w.hole)
<1> DEFINE i == FlowAhead(w)
           o == w.hole
           v == Shift(w)
           h == FlowHome[w.tab[i].key]
<1>1. /\ w \in FlowWalk /\ w.tab \in FlowTables /\ o \in FlowSlot /\ w.j \in FlowSlot /\ i \in FlowSlot
      /\ o \in FlowUsed(w.tab) /\ FlowUsed(w.tab) = FlowUsed(t)
  BY ShiftIs DEF FlowHeld, FlowWalk
<1>2. /\ v \in FlowWalk /\ v.tab = w.tab /\ v.hole = o /\ v.j = i /\ ~v.done
  BY <1>1, ShiftIs
<1>3. i # o /\ w.tab[i] # FlowFree /\ i \in FlowOthers(w) /\ i \in FlowUsed(w.tab)
  BY <1>1 DEF FlowStops, FlowOthers, FlowUsed
<1>4. h \in FlowSlot /\ FlowOff(w.tab, i) = FlowDist(i, h)
  BY <1>1, <1>3, FlowEntryAt DEF FlowOff
<1>5. ~(FlowDist(o, h) < FlowDist(i, h))
  BY <1>4 DEF FlowMoves
<1> HIDE DEF v, i, h
<1>6. FlowOff(w.tab, i) < FlowDist(i, o)
  <2>1. /\ FlowDist(i, h) \in Nat /\ FlowDist(o, h) \in Nat /\ FlowDist(i, o) \in Nat
        /\ FlowDist(o, h) <= FlowDist(i, h) <=> FlowDist(i, o) <= FlowDist(i, h)
        /\ FlowDist(o, h) <= FlowDist(i, h) => FlowDist(i, o) = FlowDist(i, h) - FlowDist(o, h)
        /\ FlowDist(i, o) = 0 <=> i = o
    BY <1>1, <1>4, FlowOnTheWay
  <2> QED BY <1>3, <1>4, <1>5, <2>1
<1>7. FlowDist(i, o) = FlowDist(w.j, o) + 1
  BY <1>1, <1>3, FlowNextSlot DEF i, FlowAhead
<1>8. ASSUME NEW x \in FlowOthers(w), FlowDist(x, o) <= FlowDist(i, o) PROVE FlowOff(w.tab, x) < FlowDist(x, o)
  <2>1. x \in FlowSlot /\ FlowDist(x, o) \in Nat /\ FlowDist(w.j, o) \in Nat
    BY <1>1, FlowOnTheWay DEF FlowOthers, FlowUsed
  <2>2. CASE FlowDist(x, o) <= FlowDist(w.j, o)
    BY <2>2 DEF FlowHeld
  <2>3. CASE ~(FlowDist(x, o) <= FlowDist(w.j, o))
    <3>1. FlowDist(x, o) = FlowDist(i, o)
      BY <1>7, <1>8, <2>1, <2>3
    <3>2. x = (o + FlowDist(x, o)) % FlowN /\ i = (o + FlowDist(i, o)) % FlowN
      BY <1>1, <2>1, FlowDistOnto
    <3>3. x = i
      BY <3>1, <3>2
    <3> QED BY <1>6, <3>3
  <2> QED BY <2>2, <2>3
<1>9. FlowHeld(v, t, s) /\ FlowOthers(v) = FlowOthers(w)
  BY <1>1, <1>2, <1>8 DEF FlowHeld, FlowOthers
<1> QED BY <1>3, <1>6, <1>9 DEF v, i

LEMMA FlowStopHeld ==
  ASSUME NEW w, NEW t, NEW s, FlowHeld(w, t, s), FlowStops(w)
  PROVE  FlowHeld(Shift(w), t, s) /\ FlowSettled(Shift(w))
<1> DEFINE v == Shift(w)
<1>1. w \in FlowWalk /\ FlowSettled(w)
  <2>1. FlowSettled(w)
    BY FlowStopSettles
  <2> QED BY <2>1 DEF FlowHeld
<1>2. v \in FlowWalk /\ v.tab = w.tab /\ v.hole = w.hole /\ v.j = w.j /\ v.done
  BY <1>1, ShiftIs
<1> HIDE DEF v
<1>3. FlowOthers(v) = FlowOthers(w)
  BY <1>2 DEF FlowOthers
<1>4. FlowSettled(v)
  BY <1>1, <1>2, <1>3 DEF FlowSettled
<1>5. FlowHeld(v, t, s)
  BY <1>2, <1>3, <1>4 DEF FlowHeld
<1> QED BY <1>4, <1>5 DEF v

\* The walk comes one slot further round the table.
LEMMA FlowRoundOn ==
  ASSUME NEW w \in FlowWalk, NEW v \in FlowWalk, NEW s \in FlowSlot, v.j = FlowAhead(w),
         NEW d \in Int, NEW q \in FlowSlot, NEW n \in Nat, n = (Window - 1 - d) * FlowN + q, FlowDist(w.j, s) = q,
         \A x \in FlowOthers(v) :
           FlowOff(v.tab, x) <= d /\ (FlowDist(x, s) \in 1 .. q \/ x = v.j => FlowOff(v.tab, x) <= d - 1)
  PROVE  FlowProgress(v, s, n + 1)
<1> DEFINE i == v.j
<1>1. w.j \in FlowSlot /\ i \in FlowSlot /\ FlowN \in Nat \ {0} /\ Window \in Nat /\ q \in 0 .. FlowN - 1
  BY FlowAssumption DEF FlowWalk, FlowSlot
<1>2. /\ i = s <=> FlowDist(w.j, s) = FlowN - 1
      /\ i # s => FlowDist(i, s) = FlowDist(w.j, s) + 1
  <2>1. i = (w.j + 1) % FlowN
    BY DEF FlowAhead
  <2> HIDE DEF i
  <2> QED BY <1>1, <2>1, FlowNextSlot
<1>3. ASSUME NEW x \in FlowOthers(v)
      PROVE  /\ x \in FlowSlot /\ FlowDist(x, s) \in 0 .. FlowN - 1 /\ FlowOff(v.tab, x) \in Nat
             /\ x = (s + FlowDist(x, s)) % FlowN
  <2>1. v.tab \in FlowTables /\ x \in FlowUsed(v.tab)
    BY DEF FlowWalk, FlowOthers
  <2> QED BY <1>1, <2>1, FlowEntryAt, FlowDistIs, FlowDistOnto DEF FlowSlot
<1>4. i = (s + FlowDist(i, s)) % FlowN
  BY <1>1, FlowDistOnto
<1>5. CASE i # s
  <2>1. q + 1 \in FlowSlot /\ FlowDist(i, s) = q + 1
    <3>1. q # FlowN - 1 /\ FlowDist(i, s) = q + 1
      BY <1>2, <1>5
    <3> QED BY <1>1, <3>1 DEF FlowSlot
  <2>2. ASSUME NEW x \in FlowOthers(v), FlowDist(x, s) \in 1 .. q + 1 PROVE FlowOff(v.tab, x) <= d - 1
    <3>1. FlowDist(x, s) \in 1 .. q \/ FlowDist(x, s) = q + 1
      BY <1>1, <1>3, <2>2
    <3>2. FlowDist(x, s) = q + 1 => x = i
      BY <1>3, <1>4, <2>1
    <3> QED BY <3>1, <3>2
  <2>3. FlowRound(v, s, d, q + 1)
    BY <2>1, <2>2 DEF FlowRound
  <2>4. n + 1 = (Window - 1 - d) * FlowN + (q + 1)
    BY <1>1
  <2> QED BY <2>1, <2>3, <2>4 DEF FlowProgress
<1>6. CASE i = s
  <2>1. q = FlowN - 1 /\ FlowDist(i, s) = 0 /\ 0 \in FlowSlot
    <3>1. FlowDist(i, s) = 0
      BY <1>1, <1>6, FlowOnTheWay
    <3> QED BY <1>1, <1>2, <1>6, <3>1 DEF FlowSlot
  <2>2. ASSUME NEW x \in FlowOthers(v) PROVE FlowOff(v.tab, x) <= d - 1
    <3>1. FlowDist(x, s) \in 1 .. q \/ FlowDist(x, s) = 0
      BY <1>1, <1>3, <2>1
    <3>2. FlowDist(x, s) = 0 => x = i
      BY <1>3, <1>4, <2>1
    <3> QED BY <3>1, <3>2
  <2>3. FlowRound(v, s, d - 1, 0)
    <3>1. FlowDist(v.j, s) = 0 /\ \A x \in FlowOthers(v) : FlowOff(v.tab, x) <= d - 1 /\ ~(FlowDist(x, s) \in 1 .. 0)
      BY <1>3, <2>1, <2>2
    <3> QED BY <3>1 DEF FlowRound
  <2>4. n + 1 = (Window - 1 - (d - 1)) * FlowN + 0
    <3>1. (Window - 1 - (d - 1)) * FlowN = (Window - 1 - d) * FlowN + FlowN
      BY <1>1
    <3>2. (Window - 1 - d) * FlowN \in Int
      BY <1>1
    <3> QED BY <1>1, <2>1, <3>1, <3>2
  <2>5. d - 1 \in Int
    OBVIOUS
  <2> QED BY <2>1, <2>3, <2>4, <2>5 DEF FlowProgress
<1> QED BY <1>5, <1>6

LEMMA FlowProgressOn ==
  ASSUME NEW t, NEW s \in FlowSlot, NEW w, FlowHeld(w, t, s), NEW n \in Nat, FlowProgress(w, s, n)
  PROVE  FlowHeld(Shift(w), t, s) /\ FlowProgress(Shift(w), s, n + 1)
<1> DEFINE v == Shift(w)
           i == FlowAhead(w)
<1>1. w \in FlowWalk /\ w.tab \in FlowTables /\ v \in FlowWalk /\ i \in FlowSlot
  BY ShiftIs DEF FlowHeld, FlowWalk
<1>2. CASE FlowStops(w)
  BY <1>2, FlowStopHeld DEF FlowProgress
<1>3. CASE ~FlowStops(w) /\ FlowSettled(w)
  <2>1. ~FlowMoves(w)
    BY <1>1, <1>3, FlowSettledStays
  <2>2. v.tab = w.tab /\ v.hole = w.hole /\ FlowHeld(v, t, s) /\ FlowOthers(v) = FlowOthers(w)
    BY <1>1, <1>3, <2>1, ShiftIs, FlowStayHeld
  <2> HIDE DEF v
  <2>3. FlowSettled(v)
    BY <1>3, <2>2 DEF FlowSettled
  <2> QED BY <2>2, <2>3 DEF FlowProgress, v
<1>4. CASE ~FlowStops(w) /\ ~FlowSettled(w)
  <2>1. PICK d \in Int, q \in FlowSlot : n = (Window - 1 - d) * FlowN + q /\ FlowRound(w, s, d, q)
    BY <1>4 DEF FlowProgress
  <2>2. /\ FlowDist(w.j, s) = q
        /\ \A x \in FlowOthers(w) : FlowOff(w.tab, x) <= d /\ (FlowDist(x, s) \in 1 .. q => FlowOff(w.tab, x) <= d - 1)
    BY <2>1 DEF FlowRound
  <2>3. \A x \in FlowOthers(w) : FlowOff(w.tab, x) \in Nat
    BY <1>1, FlowEntryAt DEF FlowOthers
  <2>4. CASE FlowMoves(w)
    <3>1. /\ FlowHeld(v, t, s)
          /\ \A x \in FlowOthers(v) :
               IF x = w.hole THEN FlowOff(v.tab, x) < FlowOff(w.tab, i) /\ i \in FlowOthers(w)
               ELSE FlowOff(v.tab, x) = FlowOff(w.tab, x) /\ x \in FlowOthers(w)
      BY <1>4, <2>4, FlowMoveHeld
    <3>2. v.hole = i /\ v.j = i
      BY <1>1, <1>4, <2>4, ShiftIs
    <3>3. \A x \in FlowOthers(v) : FlowOff(v.tab, x) \in Nat /\ x # i
      BY <1>1, <3>2, FlowEntryAt DEF FlowOthers, FlowWalk
    <3> HIDE DEF v, i
    <3>4. ASSUME NEW x \in FlowOthers(v)
          PROVE  /\ FlowOff(v.tab, x) <= d
                 /\ FlowDist(x, s) \in 1 .. q \/ x = v.j => FlowOff(v.tab, x) <= d - 1
      BY <2>2, <2>3, <3>1, <3>2, <3>3
    <3>5. FlowProgress(v, s, n + 1)
      <4>1. v.j = FlowAhead(w)
        BY <3>2 DEF i
      <4> QED BY <1>1, <2>1, <2>2, <3>4, <4>1, FlowRoundOn
    <3> QED BY <3>1, <3>5 DEF v
  <2>5. CASE ~FlowMoves(w)
    <3>1. /\ FlowHeld(v, t, s) /\ FlowOthers(v) = FlowOthers(w)
          /\ i \in FlowOthers(w) /\ FlowOff(w.tab, i) < FlowDist(i, w.hole)
      BY <1>4, <2>5, FlowStayHeld
    <3>2. v.tab = w.tab /\ v.hole = w.hole /\ v.j = i
      BY <1>1, <1>4, <2>5, ShiftIs
    <3>3. v.j = FlowAhead(w)
      BY <3>2
    <3> HIDE DEF v, i
    <3>4. CASE FlowOff(w.tab, i) <= d - 1
      <4>1. ASSUME NEW x \in FlowOthers(v)
            PROVE  /\ FlowOff(v.tab, x) <= d
                   /\ FlowDist(x, s) \in 1 .. q \/ x = v.j => FlowOff(v.tab, x) <= d - 1
        BY <2>2, <3>1, <3>2, <3>4
      <4>2. FlowProgress(v, s, n + 1)
        BY <1>1, <2>1, <2>2, <3>3, <4>1, FlowRoundOn
      <4> QED BY <3>1, <4>2 DEF v
    <3>5. CASE ~(FlowOff(w.tab, i) <= d - 1)
      <4>1. ASSUME NEW x \in FlowOthers(v) PROVE FlowOff(v.tab, x) < FlowDist(x, v.hole)
        <5>1. FlowDist(x, v.hole) <= FlowDist(v.j, v.hole) => FlowOff(v.tab, x) < FlowDist(x, v.hole)
          BY <3>1 DEF FlowHeld
        <5>2. FlowOff(w.tab, x) <= d /\ FlowOff(w.tab, i) = d /\ d < FlowDist(i, w.hole)
          BY <2>2, <2>3, <3>1, <3>5
        <5>3. FlowDist(x, v.hole) \in Nat /\ FlowDist(i, w.hole) \in Nat /\ FlowOff(v.tab, x) \in Nat
          BY <1>1, <2>3, <3>1, <3>2, FlowOnTheWay DEF FlowOthers, FlowUsed, FlowWalk
        <5> QED BY <3>2, <5>1, <5>2, <5>3
      <4>2. FlowSettled(v)
        BY <4>1 DEF FlowSettled
      <4> QED BY <3>1, <4>2 DEF FlowProgress, v
    <3> QED BY <3>4, <3>5
  <2> QED BY <2>4, <2>5
<1> QED BY <1>2, <1>3, <1>4

\* flow_remove_at: the table stays one in which every flow is found, and holds
\* no entry it did not hold before.
LEMMA FlowRemoveWell ==
  ASSUME NEW t, FlowWell(t), NEW s \in FlowUsed(t)
  PROVE  /\ FlowWell(FlowRemove(t, s))
         /\ \A x \in FlowUsed(FlowRemove(t, s)) : \E y \in FlowUsed(t) \ {s} : FlowRemove(t, s)[x] = t[y]
<1> DEFINE M == Window * FlowN
           W == FlowRun(t, s)
           end == W[M]
           r == FlowRemove(t, s)
<1>1. M \in Nat /\ FlowN \in Nat \ {0} /\ Window \in Nat \ {0} /\ Window <= FlowN
  BY FlowAssumption
<1>2. t \in FlowTables /\ s \in FlowSlot
  BY DEF FlowWell, FlowUsed
<1>3. /\ W[0] = [tab |-> t, hole |-> s, j |-> s, done |-> FALSE]
      /\ \A n \in 0 .. M : n < M => W[n + 1] = Shift(W[n])
  BY <1>2, FlowRunSteps
<1>4. r = [end.tab EXCEPT ![end.hole] = FlowFree]
  BY FlowRemoveRuns
<1> HIDE DEF W, r, M
<1>5. FlowHeld(W[0], t, s) /\ FlowProgress(W[0], s, 0)
  <2> DEFINE w == W[0]
  <2>1. w.tab = t /\ w.hole = s /\ w.j = s /\ w.done = FALSE /\ w \in FlowWalk
    BY <1>2, <1>3 DEF FlowWalk
  <2> HIDE DEF w
  <2>2. FlowOthers(w) = FlowUsed(t) \ {s}
    BY <2>1 DEF FlowOthers
  <2>3. \A x \in FlowUsed(t) : FlowReached(t, x) /\ \A y \in FlowUsed(t) : t[x].key = t[y].key => x = y
    BY DEF FlowWell
  <2>4. \A x \in FlowOthers(w) : FlowDist(x, s) > FlowDist(s, s) /\ FlowDist(s, s) = 0 /\ FlowDist(x, s) \in Nat /\ x \in FlowSlot
    BY <1>2, <2>2, FlowOnTheWay DEF FlowUsed
  <2>5. FlowHeld(w, t, s)
    BY <2>1, <2>2, <2>3, <2>4 DEF FlowHeld
  <2>6. FlowDist(s, s) = 0 /\ 0 \in FlowSlot
    BY <1>1, <1>2, FlowOnTheWay DEF FlowSlot
  <2>7. \A x \in FlowOthers(w) : FlowOff(t, x) <= Window - 1 /\ ~(FlowDist(x, s) \in 1 .. 0)
    <3>1. \A x \in FlowUsed(t) : FlowOff(t, x) \in Nat
      BY <1>2, FlowEntryAt
    <3> QED BY <1>1, <2>2, <2>3, <3>1 DEF FlowReached
  <2>8. FlowRound(w, s, Window - 1, 0)
    BY <2>1, <2>6, <2>7 DEF FlowRound
  <2>9. 0 = (Window - 1 - (Window - 1)) * FlowN + 0 /\ Window - 1 \in Int
    BY <1>1
  <2>10. FlowProgress(w, s, 0)
    BY <2>6, <2>8, <2>9 DEF FlowProgress
  <2> QED BY <2>5, <2>10 DEF w
<1> DEFINE S == {n \in 0 .. M : FlowHeld(W[n], t, s) /\ FlowProgress(W[n], s, n)}
<1>6. 0 \in S
  BY <1>1, <1>5
<1>7. ASSUME NEW n \in Nat, n \in S, n < M PROVE n + 1 \in S
  <2>1. W[n + 1] = Shift(W[n]) /\ n + 1 \in 0 .. M
    BY <1>1, <1>3, <1>7
  <2> QED BY <1>2, <1>7, <2>1, FlowProgressOn
<1>8. M \in S
  <2>1. \A n \in 0 .. M : n \in S
    <3> HIDE DEF S
    <3> QED BY <1>1, <1>6, <1>7, Inducts
  <2> QED BY <1>1, <2>1
<1>9. FlowHeld(end, t, s) /\ FlowProgress(end, s, M)
  BY <1>8
<1> HIDE DEF S, end
<1>10. end \in FlowWalk /\ end.tab \in FlowTables /\ end.hole \in FlowSlot
  BY <1>9 DEF FlowHeld, FlowWalk
<1>11. FlowSettled(end)
  <2> SUFFICES ASSUME NEW d \in Int, NEW q \in FlowSlot, M = (Window - 1 - d) * FlowN + q, FlowRound(end, s, d, q)
               PROVE  FlowSettled(end)
    BY <1>9 DEF FlowProgress
  <2>1. q \in 0 .. FlowN - 1 /\ Window * FlowN = (Window - 1 - d) * FlowN + q
    BY DEF FlowSlot, M
  <2>2. d <= -1
    <3>1. q = (d + 1) * FlowN
      BY <1>1, <2>1
    <3>2. d + 1 <= 0
      <4>1. CASE d + 1 >= 1
        <5>1. (d + 1) * FlowN >= FlowN
          BY <1>1, <4>1
        <5> QED BY <1>1, <2>1, <3>1, <5>1
      <4> QED BY <4>1
    <3> QED BY <3>2
  <2>3. ASSUME NEW x \in FlowOthers(end) PROVE FALSE
    <3>1. FlowOff(end.tab, x) <= d
      BY DEF FlowRound
    <3>2. FlowOff(end.tab, x) \in Nat
      BY <1>10, FlowEntryAt DEF FlowOthers
    <3> QED BY <2>2, <3>1, <3>2
  <2> QED BY <2>3 DEF FlowSettled
<1>12. r \in FlowTables /\ r[end.hole] = FlowFree /\ \A x \in FlowSlot : x # end.hole => r[x] = end.tab[x]
  BY <1>4, <1>10 DEF FlowTables
<1>13. FlowUsed(r) = FlowOthers(end)
  BY <1>12 DEF FlowUsed, FlowOthers
<1>14. ASSUME NEW x \in FlowUsed(r) PROVE FlowReached(r, x) /\ r[x] = end.tab[x]
  <2> DEFINE h == FlowHome[end.tab[x].key]
  <2>1. x \in FlowOthers(end) /\ x \in FlowUsed(end.tab) /\ x \in FlowSlot /\ r[x] = end.tab[x]
    BY <1>12, <1>13, <1>14 DEF FlowUsed, FlowOthers
  <2>2. FlowReached(end.tab, x) /\ FlowOff(end.tab, x) < FlowDist(x, end.hole)
    BY <1>9, <1>11, <2>1 DEF FlowHeld, FlowSettled
  <2>3. FlowOff(r, x) = FlowOff(end.tab, x) /\ FlowOff(end.tab, x) = FlowDist(x, h) /\ h \in FlowSlot
    BY <1>10, <2>1, FlowEntryAt DEF FlowOff
  <2>4. ~(FlowDist(end.hole, h) <= FlowDist(x, h))
    <3> HIDE DEF h
    <3>1. /\ FlowDist(x, h) \in Nat /\ FlowDist(end.hole, h) \in Nat /\ FlowDist(x, end.hole) \in Nat
          /\ FlowDist(end.hole, h) <= FlowDist(x, h) => FlowDist(x, end.hole) = FlowDist(x, h) - FlowDist(end.hole, h)
      BY <1>10, <2>1, <2>3, FlowOnTheWay
    <3> QED BY <2>2, <2>3, <3>1
  <2>5. \A y \in FlowSlot : FlowDist(y, h) <= FlowOff(r, x) => r[y] # FlowFree
    <3> SUFFICES ASSUME NEW y \in FlowSlot, FlowDist(y, h) <= FlowOff(r, x) PROVE r[y] # FlowFree
      OBVIOUS
    <3>1. end.tab[y] # FlowFree
      BY <2>2, <2>3 DEF FlowReached
    <3>2. y # end.hole
      BY <2>3, <2>4
    <3> QED BY <1>12, <3>1, <3>2
  <2>6. FlowOff(r, x) < Window
    BY <2>2, <2>3 DEF FlowReached
  <2> QED BY <2>1, <2>5, <2>6 DEF FlowReached
<1>15. \A x, y \in FlowUsed(r) : r[x].key = r[y].key => x = y
  BY <1>9, <1>13, <1>14 DEF FlowHeld
<1>16. FlowWell(r)
  BY <1>12, <1>14, <1>15 DEF FlowWell
<1>17. \A x \in FlowUsed(r) : \E y \in FlowUsed(t) \ {s} : r[x] = t[y]
  BY <1>9, <1>13, <1>14 DEF FlowHeld
<1> QED BY <1>16, <1>17 DEF r

-----------------------------------------------------------------------------
(* The sweep: every step either moves on or removes one idle entry.        *)
SweepStep(w) ==
  IF w.tab[w.at] # FlowFree /\ w.tab[w.at].age >= FlowIdle
  THEN [w EXCEPT !.tab = FlowRemove(w.tab, w.at)] ELSE [w EXCEPT !.at = (@ + 1) % FlowN]
SweepRun(t, at) ==
  CHOOSE g : g = [n \in 0 .. FlowBudget |-> IF n = 0 THEN [tab |-> t, at |-> at]
                                            ELSE FlowThe({SweepStep(w) : w \in {g[n - 1]}})]
\* A sweep of t at some point: t with entries taken out.
SweepOf(t) ==
  {w \in [tab : FlowTables, at : FlowSlot] :
     FlowWell(w.tab) /\ \A x \in FlowUsed(w.tab) : \E y \in FlowUsed(t) : w.tab[x] = t[y]}

LEMMA SweepRuns ==
  ASSUME NEW t, NEW at
  PROVE  FlowSweep(t, at) = SweepRun(t, at)[FlowBudget]
BY DEF FlowSweep, SweepRun, SweepStep

LEMMA SweepStepOf ==
  ASSUME NEW t, NEW w \in SweepOf(t)
  PROVE  SweepStep(w) \in SweepOf(t)
<1>1. /\ w \in [tab : FlowTables, at : FlowSlot] /\ w.tab \in FlowTables /\ w.at \in FlowSlot /\ FlowWell(w.tab)
      /\ \A x \in FlowUsed(w.tab) : \E y \in FlowUsed(t) : w.tab[x] = t[y]
  BY DEF SweepOf
<1>2. CASE w.tab[w.at] # FlowFree /\ w.tab[w.at].age >= FlowIdle
  <2> DEFINE r == FlowRemove(w.tab, w.at)
             v == [w EXCEPT !.tab = r]
  <2>1. w.at \in FlowUsed(w.tab)
    BY <1>1, <1>2 DEF FlowUsed
  <2>2. FlowWell(r) /\ \A x \in FlowUsed(r) : \E y \in FlowUsed(w.tab) \ {w.at} : r[x] = w.tab[y]
    BY <1>1, <2>1, FlowRemoveWell
  <2>3. SweepStep(w) = v
    BY <1>2 DEF SweepStep
  <2> HIDE DEF r
  <2>4. v \in [tab : FlowTables, at : FlowSlot] /\ v.tab = r
    BY <1>1, <2>2 DEF FlowWell
  <2>5. \A x \in FlowUsed(r) : \E y \in FlowUsed(t) : r[x] = t[y]
    BY <1>1, <2>2
  <2> HIDE DEF v
  <2> QED BY <2>2, <2>3, <2>4, <2>5 DEF SweepOf
<1>3. CASE ~(w.tab[w.at] # FlowFree /\ w.tab[w.at].age >= FlowIdle)
  <2> DEFINE i == (w.at + 1) % FlowN
             v == [w EXCEPT !.at = i]
  <2>1. SweepStep(w) = v
    BY <1>3 DEF SweepStep
  <2>2. i \in FlowSlot
    BY <1>1, FlowNextSlot
  <2> HIDE DEF i
  <2>3. v \in [tab : FlowTables, at : FlowSlot] /\ v.tab = w.tab
    BY <1>1, <2>2
  <2> HIDE DEF v
  <2> QED BY <1>1, <2>1, <2>3 DEF SweepOf
<1> QED BY <1>2, <1>3

LEMMA FlowSweepWell ==
  ASSUME NEW t, FlowWell(t), NEW at \in FlowSlot
  PROVE  FlowSweep(t, at) \in SweepOf(t)
<1> DEFINE M == FlowBudget
           a == [tab |-> t, at |-> at]
           St == SweepOf(t)
           G == [w \in St |-> SweepStep(w)]
           H == [n \in 1 .. M |-> G]
           Is(g) == g = [n \in 0 .. M |-> IF n = 0 THEN a ELSE FlowThe({SweepStep(w) : w \in {g[n - 1]}})]
<1>1. M \in Nat
  BY FlowAssumption
<1>2. a \in St
  <2>1. a \in [tab : FlowTables, at : FlowSlot] /\ a.tab = t
    BY DEF FlowWell
  <2> HIDE DEF a
  <2> QED BY <2>1 DEF SweepOf
<1>3. G \in [St -> St]
  <2> HIDE DEF St
  <2>1. \A w \in St : SweepStep(w) \in St
    BY SweepStepOf DEF St
  <2> QED BY <2>1
<1>4. \A w : FlowThe({SweepStep(v) : v \in {w}}) = SweepStep(w)
  BY DEF FlowThe
<1> HIDE DEF M, a, St
<1>5. H \in [1 .. M -> [St -> St]] /\ \A n \in 1 .. M : H[n] = G
  <2> HIDE DEF G
  <2> QED BY <1>3
<1> HIDE DEF H
<1>6. PICK f \in StepRuns(St, a, M, H) : TRUE
  BY <1>1, <1>2, <1>5, StepsExist
<1>7. f \in [0 .. M -> St] /\ f[0] = a /\ \A n \in 1 .. M : f[n] = H[n][f[n - 1]]
  BY ONLY <1>6 DEF StepRuns
<1>8. ASSUME NEW n \in 0 .. M PROVE f[n] = IF n = 0 THEN a ELSE FlowThe({SweepStep(w) : w \in {f[n - 1]}})
  <2>1. CASE n = 0
    BY <1>7, <2>1
  <2>2. CASE n # 0
    <3>1. n \in 1 .. M /\ n - 1 \in 0 .. M
      BY <1>1, <2>2
    <3>2. f[n] = SweepStep(f[n - 1])
      BY <1>5, <1>7, <3>1 DEF G
    <3> QED BY <1>4, <2>2, <3>2
  <2> QED BY <2>1, <2>2
<1> DEFINE W == SweepRun(t, at)
<1>9. Is(f)
  BY <1>7, <1>8
<1>10. W = CHOOSE g : Is(g)
  BY DEF SweepRun, M, a
<1>11. Is(W)
  <2> HIDE DEF Is, W
  <2> QED BY <1>9, <1>10
<1> HIDE DEF W
<1>12. W[0] = a /\ \A n \in 1 .. M : n - 1 \in 0 .. M /\ W[n] = SweepStep(W[n - 1])
  <2>1. \A m \in 0 .. M : W[m] = IF m = 0 THEN a ELSE FlowThe({SweepStep(w) : w \in {W[m - 1]}})
    BY <1>11
  <2>2. ASSUME NEW n \in 1 .. M PROVE n - 1 \in 0 .. M /\ W[n] = SweepStep(W[n - 1])
    <3>1. n \in 0 .. M /\ n # 0 /\ n - 1 \in 0 .. M
      BY <1>1
    <3>2. W[n] = FlowThe({SweepStep(w) : w \in {W[n - 1]}})
      BY <2>1, <3>1
    <3> QED BY <1>4, <3>1, <3>2
  <2>3. W[0] = a
    <3>1. 0 \in 0 .. M
      BY <1>1
    <3>2. W[0] = IF 0 = 0 THEN a ELSE FlowThe({SweepStep(w) : w \in {W[0 - 1]}})
      BY <2>1, <3>1
    <3> QED BY <3>2
  <2> QED BY <2>2, <2>3
<1> DEFINE S == {n \in 0 .. M : W[n] \in St}
<1>13. \A n \in 0 .. M : n \in S
  <2>1. 0 \in S
    BY <1>1, <1>2, <1>12
  <2>2. ASSUME NEW n \in Nat, n \in S, n < M PROVE n + 1 \in S
    <3>1. n + 1 \in 1 .. M /\ n + 1 - 1 = n /\ n + 1 \in 0 .. M
      BY <1>1, <2>2
    <3>2. W[n + 1] = SweepStep(W[n])
      BY <1>12, <3>1
    <3> QED BY <2>2, <3>1, <3>2, SweepStepOf DEF St
  <2> HIDE DEF S
  <2> QED BY <1>1, <2>1, <2>2, Inducts
<1>14. W[M] \in St
  BY <1>1, <1>13
<1> QED BY <1>14, SweepRuns DEF W, M, St

-----------------------------------------------------------------------------
(* Looking up, and the slot of a new entry.                                *)
LEMMA FlowLookupIs ==
  ASSUME NEW t, FlowWell(t), NEW k \in FlowKey
  PROVE  /\ \A x \in FlowUsed(t) : t[x].key = k => FlowLookup(t, k) = x
         /\ FlowLookup(t, k) # None => FlowLookup(t, k) \in FlowUsed(t) /\ t[FlowLookup(t, k)].key = k
<1> DEFINE h == FlowHome[k]
           At(n) == (h + n) % FlowN
           Hits == {n \in 0 .. Window - 1 : /\ t[At(n)] # FlowFree /\ t[At(n)].key = k
                                            /\ \A m \in 0 .. n : t[At(m)] # FlowFree}
           L == FlowLookup(t, k)
<1>1. L = IF Hits = {} THEN None ELSE At(CHOOSE n \in Hits : TRUE)
  BY DEF FlowLookup
<1>2. h \in FlowSlot /\ None \notin FlowSlot /\ Window \in Nat /\ FlowN \in Nat \ {0} /\ Window <= FlowN
  BY FlowAssumption DEF FlowSlot
<1> HIDE DEF h
<1>3. \A n \in 0 .. Window - 1 : n \in FlowSlot /\ At(n) \in FlowSlot /\ FlowDist(At(n), h) = n
  <2>1. \A n \in 0 .. Window - 1 : n \in FlowSlot
    BY <1>2 DEF FlowSlot
  <2> QED BY <1>2, <2>1, FlowSlotAt
<1>4. ASSUME NEW n \in Hits PROVE At(n) \in FlowUsed(t) /\ t[At(n)].key = k
  BY <1>3 DEF FlowUsed
<1>5. ASSUME NEW x \in FlowUsed(t), t[x].key = k PROVE Hits # {} /\ \A n \in Hits : At(n) = x
  <2> DEFINE m == FlowDist(x, h)
  <2>1. x \in FlowSlot /\ FlowReached(t, x) /\ t[x] # FlowFree
    BY <1>5 DEF FlowWell, FlowUsed
  <2>2. m = FlowOff(t, x)
    BY <1>5 DEF FlowOff, h
  <2>3. m \in FlowSlot /\ m \in Nat /\ At(m) = x
    <3>1. m \in FlowSlot
      BY <1>2, <2>1, FlowDistIs
    <3>2. At(m) = x
      BY <1>2, <2>1, FlowDistOnto
    <3> HIDE DEF m, At
    <3> QED BY <1>2, <3>1, <3>2 DEF FlowSlot
  <2> HIDE DEF m
  <2>4. m < Window /\ \A y \in FlowSlot : FlowDist(y, h) <= m => t[y] # FlowFree
    BY <1>5, <2>1, <2>2 DEF FlowReached, h
  <2>5. m \in 0 .. Window - 1
    BY <1>2, <2>3, <2>4
  <2>6. \A i \in 0 .. m : t[At(i)] # FlowFree
    <3> SUFFICES ASSUME NEW i \in 0 .. m PROVE t[At(i)] # FlowFree
      OBVIOUS
    <3>1. i \in 0 .. Window - 1 /\ i <= m
      BY <1>2, <2>5
    <3>2. At(i) \in FlowSlot /\ FlowDist(At(i), h) = i
      BY <1>3, <3>1
    <3> HIDE DEF At
    <3> QED BY <2>4, <3>1, <3>2
  <2> HIDE DEF At
  <2>7. m \in Hits
    BY <1>5, <2>1, <2>3, <2>5, <2>6
  <2>8. \A n \in Hits : At(n) = x
    BY <1>4, <1>5 DEF FlowWell
  <2> QED BY <2>7, <2>8
<1> HIDE DEF Hits, At
<1>6. Hits # {} => \E n \in Hits : L = At(n)
  BY <1>1
<1>7. Hits = {} => L = None
  BY <1>1
<1> QED BY <1>2, <1>4, <1>5, <1>6, <1>7 DEF L, FlowUsed

\* Where a flow may have its entry: in reach of a lookup, and nowhere else.
FlowMay(t, at, e) ==
  /\ at \in FlowSlot /\ e \in FlowEntry /\ FlowDist(at, FlowHome[e.key]) < Window
  /\ \A y \in FlowSlot : FlowDist(y, FlowHome[e.key]) < FlowDist(at, FlowHome[e.key]) => t[y] # FlowFree
  /\ \A x \in FlowUsed(t) : t[x].key = e.key => x = at

\* Writing an entry where its flow may have it keeps every flow findable.
LEMMA FlowPutWell ==
  ASSUME NEW t, FlowWell(t), NEW at, NEW e, FlowMay(t, at, e)
  PROVE  LET r == [t EXCEPT ![at] = e]
         IN  /\ FlowWell(r) /\ FlowUsed(r) = FlowUsed(t) \cup {at} /\ r[at] = e
             /\ \A x \in FlowSlot : x # at => r[x] = t[x]
<1> DEFINE r == [t EXCEPT ![at] = e]
           h == FlowHome[e.key]
<1>0. /\ at \in FlowSlot /\ e \in FlowEntry /\ FlowDist(at, h) < Window
      /\ \A y \in FlowSlot : FlowDist(y, h) < FlowDist(at, h) => t[y] # FlowFree
      /\ \A x \in FlowUsed(t) : t[x].key = e.key => x = at
  BY DEF FlowMay
<1>1. t \in FlowTables /\ FlowFree \notin FlowEntry /\ e # FlowFree
  BY <1>0, FlowAssumption DEF FlowWell
<1>2. r \in FlowTables /\ r[at] = e /\ \A x \in FlowSlot : x # at => r[x] = t[x]
  BY <1>0, <1>1 DEF FlowTables
<1> HIDE DEF r
<1>3. FlowUsed(r) = FlowUsed(t) \cup {at}
  BY <1>0, <1>1, <1>2 DEF FlowUsed
<1>4. \A y \in FlowSlot : t[y] # FlowFree => r[y] # FlowFree
  BY <1>1, <1>2
<1>5. ASSUME NEW x \in FlowUsed(r) PROVE FlowReached(r, x)
  <2>1. CASE x = at
    <3>1. FlowOff(r, x) = FlowDist(at, h)
      BY <1>2, <2>1 DEF FlowOff
    <3>2. ASSUME NEW y \in FlowSlot, FlowDist(y, h) <= FlowDist(at, h) PROVE r[y] # FlowFree
      <4>1. CASE FlowDist(y, h) < FlowDist(at, h)
        BY <1>0, <1>4, <4>1
      <4>2. CASE FlowDist(y, h) = FlowDist(at, h)
        <5>1. h \in FlowSlot
          BY <1>0, FlowAssumption DEF FlowSlot, FlowEntry
        <5>2. y = at
          BY <1>0, <4>2, <5>1, FlowDistOnto
        <5> QED BY <1>1, <1>2, <5>2
      <4>3. FlowDist(y, h) \in Nat /\ FlowDist(at, h) \in Nat
        <5>1. h \in FlowSlot
          BY <1>0, FlowAssumption DEF FlowSlot, FlowEntry
        <5>2. FlowDist(y, h) \in FlowSlot /\ FlowDist(at, h) \in FlowSlot
          BY <1>0, <5>1, FlowDistIs
        <5> QED BY <5>2 DEF FlowSlot
      <4> QED BY <3>2, <4>1, <4>2, <4>3
    <3>3. r[x].key = e.key
      BY <1>2, <2>1
    <3> QED BY <1>0, <3>1, <3>2, <3>3 DEF FlowReached
  <2>2. CASE x # at
    <3>1. x \in FlowUsed(t) /\ r[x] = t[x]
      BY <1>2, <1>3, <2>2 DEF FlowUsed
    <3>2. FlowReached(t, x)
      BY <3>1 DEF FlowWell
    <3> QED BY <1>4, <3>1, <3>2 DEF FlowReached, FlowOff
  <2> QED BY <2>1, <2>2
<1>6. ASSUME NEW x \in FlowUsed(r), NEW y \in FlowUsed(r), r[x].key = r[y].key PROVE x = y
  <2>1. \A z \in FlowUsed(r) : z # at => z \in FlowUsed(t) /\ r[z] = t[z]
    BY <1>2, <1>3 DEF FlowUsed
  <2>2. \A z \in FlowUsed(r) : r[z].key = e.key => z = at
    BY <1>0, <2>1
  <2>3. CASE x = at \/ y = at
    BY <1>0, <1>2, <1>6, <2>2, <2>3
  <2>4. CASE x # at /\ y # at
    BY <1>6, <2>1, <2>4 DEF FlowWell
  <2> QED BY <2>3, <2>4
<1>7. FlowWell(r)
  BY <1>2, <1>5, <1>6 DEF FlowWell
<1> QED BY <1>2, <1>3, <1>7 DEF r

\* flow_insert_h takes a slot of the window that all earlier ones are used before.
LEMMA FlowPlaceIs ==
  ASSUME NEW t, FlowWell(t), NEW k \in FlowKey
  PROVE  /\ Place(t, k) \in FlowSlot /\ FlowDist(Place(t, k), FlowHome[k]) < Window
         /\ \A y \in FlowSlot : FlowDist(y, FlowHome[k]) < FlowDist(Place(t, k), FlowHome[k]) => t[y] # FlowFree
<1> DEFINE h == FlowHome[k]
           At(n) == (h + n) % FlowN
           Open == {n \in 0 .. Window - 1 : t[At(n)] = FlowFree}
           Age(n) == t[At(n)].age
           Stalest == {n \in 0 .. Window - 1 : \A m \in 0 .. Window - 1 : Age(n) >= Age(m)}
<1>1. Place(t, k) = IF Open # {} THEN At(CHOOSE n \in Open : \A m \in Open : n <= m)
                    ELSE At(CHOOSE n \in Stalest : \A m \in Stalest : n >= m)
  BY DEF Place
<1>2. h \in FlowSlot /\ Window \in Nat \ {0} /\ FlowN \in Nat \ {0} /\ Window <= FlowN /\ FlowIdle \in Nat
  BY FlowAssumption DEF FlowSlot
<1> HIDE DEF h
<1>3. \A n \in 0 .. Window - 1 : n \in FlowSlot /\ At(n) \in FlowSlot /\ FlowDist(At(n), h) = n
  <2>1. \A n \in 0 .. Window - 1 : n \in FlowSlot
    BY <1>2 DEF FlowSlot
  <2> QED BY <1>2, <2>1, FlowSlotAt
\* A slot nearer than the n-th of the window is an earlier one.
<1>4. ASSUME NEW n \in 0 .. Window - 1, NEW y \in FlowSlot, FlowDist(y, h) < n
      PROVE  \E m \in 0 .. Window - 1 : m < n /\ y = At(m)
  <2>1. FlowDist(y, h) \in FlowSlot /\ y = (h + FlowDist(y, h)) % FlowN
    BY <1>2, FlowDistIs, FlowDistOnto
  <2>2. FlowDist(y, h) \in 0 .. Window - 1
    BY <1>2, <1>4, <2>1 DEF FlowSlot
  <2> QED BY <1>4, <2>1, <2>2
<1>5. CASE Open # {}
  <2>1. \E n \in Open : \A m \in Open : n <= m
    <3>1. Open \subseteq Nat
      BY <1>2
    <3> HIDE DEF Open
    <3> QED BY <1>5, <3>1, SmallestOf
  <2>2. PICK n \in Open : (\A m \in Open : n <= m) /\ Place(t, k) = At(n)
    <3> HIDE DEF Open, At
    <3> QED BY <1>1, <1>5, <2>1
  <2>3. ASSUME NEW y \in FlowSlot, FlowDist(y, h) < n PROVE t[y] # FlowFree
    <3>1. PICK m \in 0 .. Window - 1 : m < n /\ y = At(m)
      BY <1>4, <2>3
    <3>2. m \notin Open
      <4>1. n \in 0 .. Window - 1
        OBVIOUS
      <4> HIDE DEF Open
      <4> QED BY <1>2, <2>2, <3>1, <4>1
    <3> QED BY <3>1, <3>2
  <2>4. n \in 0 .. Window - 1 /\ FlowDist(At(n), h) = n /\ At(n) \in FlowSlot /\ n < Window
    BY <1>2, <1>3
  <2> HIDE DEF At, Open
  <2> QED BY <2>2, <2>3, <2>4 DEF h
<1>6. CASE Open = {}
  <2>1. \A n \in 0 .. Window - 1 : t[At(n)] # FlowFree
    BY <1>6
  <2>2. \A n \in 0 .. Window - 1 : Age(n) \in 0 .. FlowIdle
    <3> SUFFICES ASSUME NEW n \in 0 .. Window - 1 PROVE Age(n) \in 0 .. FlowIdle
      OBVIOUS
    <3>1. At(n) \in FlowSlot /\ t[At(n)] # FlowFree
      BY <1>3, <2>1
    <3> HIDE DEF At
    <3>2. t[At(n)] \in FlowEntry
      BY <3>1 DEF FlowWell, FlowTables
    <3> QED BY <3>2 DEF FlowEntry
  <2> HIDE DEF Age
  <2>3. \E n \in 0 .. Window - 1 : n \in Stalest
    <3> DEFINE T == {FlowIdle - Age(n) : n \in 0 .. Window - 1}
    <3>1. T \subseteq Nat
      BY <1>2, <2>2
    <3>2. T # {}
      BY <1>2
    <3> HIDE DEF T
    <3>3. PICK d \in T : \A e \in T : d <= e
      BY <3>1, <3>2, SmallestOf
    <3>4. PICK n \in 0 .. Window - 1 : d = FlowIdle - Age(n)
      BY DEF T
    <3>5. \A m \in 0 .. Window - 1 : FlowIdle - Age(n) <= FlowIdle - Age(m)
      BY <3>3, <3>4 DEF T
    <3>6. \A m \in 0 .. Window - 1 : Age(n) >= Age(m)
      BY <1>2, <2>2, <3>5
    <3> QED BY <3>6
  <2>4. \E n \in Stalest : \A m \in Stalest : n >= m
    <3> DEFINE T == {Window - n : n \in Stalest}
    <3>1. T \subseteq Nat /\ T # {}
      <4>1. Stalest \subseteq 0 .. Window - 1 /\ Stalest # {}
        BY <2>3
      <4> HIDE DEF Stalest
      <4>2. \A n \in Stalest : Window - n \in Nat
        <5>1. \A n \in 0 .. Window - 1 : Window - n \in Nat
          BY <1>2
        <5> QED BY <4>1, <5>1
      <4> QED BY <4>1, <4>2
    <3>2. PICK d \in T : \A e \in T : d <= e
      <4> HIDE DEF T
      <4> QED BY <3>1, SmallestOf
    <3>3. Stalest \subseteq 0 .. Window - 1
      OBVIOUS
    <3> HIDE DEF Stalest
    <3>4. PICK n \in Stalest : d = Window - n
      BY <3>2
    <3>5. \A m \in Stalest : Window - n <= Window - m
      BY <3>2, <3>4
    <3> QED BY <1>2, <3>3, <3>5
  <2>5. PICK n \in Stalest : Place(t, k) = At(n)
    <3> HIDE DEF Stalest, Open, At
    <3> QED BY <1>1, <1>6, <2>4
  <2>6. n \in 0 .. Window - 1 /\ n < Window /\ At(n) \in FlowSlot /\ FlowDist(At(n), h) = n
    BY <1>2, <1>3
  <2>7. ASSUME NEW y \in FlowSlot, FlowDist(y, h) < n PROVE t[y] # FlowFree
    <3>1. PICK m \in 0 .. Window - 1 : m < n /\ y = At(m)
      BY <1>4, <2>6, <2>7
    <3> QED BY <2>1, <3>1
  <2> HIDE DEF At, Open, Stalest
  <2> QED BY <2>5, <2>6, <2>7 DEF h
<1> QED BY <1>5, <1>6

-----------------------------------------------------------------------------
(* The invariant.                                                          *)
FlowInv ==
  /\ FlowWell(flows) /\ pos \in FlowSlot
  /\ tables \in Policies \cup {<<>>} /\ default \in defaults
  /\ AllowedByPolicy

\* The policy, under a default since the last flush, allows a packet of the key.
FlowAllows(k) ==
  \E p \in FlowPacket, d \in defaults : p.key = k /\ Decision(tables, d, p) \in {"forward", "inspect"}
\* A packet of the key writes entry e at a slot: where the key's entry was, or
\* where a lookup will find it; a conviction stays, and only what the policy
\* allows is allowed.
FlowWrites(k, at, e) ==
  /\ at \in FlowSlot /\ e \in FlowEntry /\ e.key = k /\ k \in FlowKey
  /\ flows' = [flows EXCEPT ![at] = e]
  /\ FlowDist(at, FlowHome[k]) < Window
  /\ \A y \in FlowSlot : FlowDist(y, FlowHome[k]) < FlowDist(at, FlowHome[k]) => flows[y] # FlowFree
  /\ \A x \in FlowUsed(flows) : flows[x].key = k =>
       x = at /\ (flows[x].verdict \in {"drop", "reset"} => e.verdict = flows[x].verdict)
  /\ e.verdict = "allow" => FlowAllows(k)

LEMMA FlowEntryHome ==
  ASSUME NEW t, FlowWell(t), NEW x \in FlowUsed(t)
  PROVE  /\ x \in FlowSlot /\ t[x] \in FlowEntry /\ FlowDist(x, FlowHome[t[x].key]) < Window
         /\ \A y \in FlowSlot :
              FlowDist(y, FlowHome[t[x].key]) < FlowDist(x, FlowHome[t[x].key]) => t[y] # FlowFree
<1> DEFINE h == FlowHome[t[x].key]
<1>1. x \in FlowSlot /\ t[x] \in FlowEntry /\ FlowReached(t, x) /\ h \in FlowSlot
  BY FlowEntryAt DEF FlowWell
<1>2. FlowDist(x, h) < Window /\ \A y \in FlowSlot : FlowDist(y, h) <= FlowDist(x, h) => t[y] # FlowFree
  BY <1>1 DEF FlowReached, FlowOff
<1>3. \A y \in FlowSlot : FlowDist(y, h) \in Int
  BY <1>1, FlowOnTheWay
<1> HIDE DEF h
<1>4. \A y \in FlowSlot : FlowDist(y, h) < FlowDist(x, h) => t[y] # FlowFree
  BY <1>1, <1>2, <1>3
<1> QED BY <1>1, <1>2, <1>4 DEF h

LEMMA FlowPinnedType ==
  ASSUME NEW rows \in Seq(FlowRows), NEW p
  PROVE  Pinned(rows, p) \in BOOLEAN
<1> DEFINE Hits == {i \in DOMAIN rows : <<p.key, p.side>> \in rows[i].match /\ (p.frag => ~rows[i].ports)}
           i == CHOOSE i \in Hits : \A j \in Hits : i <= j
<1>1. Classify(rows, p) = IF Hits = {} THEN None ELSE rows[i]
  BY DEF Classify
<1>2. CASE Hits = {} 
  BY <1>1, <1>2 DEF Pinned
<1>3. CASE Hits # {}
  <2>1. Hits \subseteq DOMAIN rows /\ DOMAIN rows \subseteq Nat
    OBVIOUS
  <2> HIDE DEF Hits
  <2>2. i \in Hits
    BY <1>3, <2>1, SmallestOf
  <2> HIDE DEF i
  <2>3. rows[i] \in FlowRows
    BY <2>1, <2>2
  <2>4. rows[i].pinned \in BOOLEAN
    BY <2>3 DEF FlowRows
  <2> QED BY <1>1, <1>3, <2>4 DEF Pinned
<1> QED BY <1>2, <1>3

LEMMA HitWrites ==
  ASSUME FlowInv, NEW p \in FlowPacket, NEW v, Hit(p, v)
  PROVE  \E at, e : FlowWrites(p.key, at, e)
<1> DEFINE s == FlowLookup(flows, p.key)
           e == flows[s]
           d == IF e.verdict # "allow" THEN "drop" ELSE IF e.insp THEN "inspect" ELSE "forward"
           dec == Resolve(d, e.pinned, p.side)
           scan == Scanned(dec, e, p)
           convicted == scan /\ v # "pass"
           n == [e EXCEPT !.age = 0, !.scans = IF scan THEN @ + 1 ELSE @,
                     !.verdict = IF ~convicted THEN @ ELSE IF v = "reset" THEN "reset" ELSE "drop",
                     !.insp = @ /\ ~convicted]
<1>1. s # None /\ e.verdict # "unset" /\ flows' = [flows EXCEPT ![s] = n] /\ FlowWell(flows)
  BY DEF Hit, FlowInv
<1>2. p.key \in FlowKey
  BY DEF FlowPacket
<1>3. s \in FlowUsed(flows) /\ e.key = p.key /\ \A x \in FlowUsed(flows) : flows[x].key = p.key => x = s
  BY <1>1, <1>2, FlowLookupIs
<1> HIDE DEF s
<1>4. s \in FlowSlot /\ e \in FlowEntry /\ FlowDist(s, FlowHome[p.key]) < Window
      /\ \A y \in FlowSlot : FlowDist(y, FlowHome[p.key]) < FlowDist(s, FlowHome[p.key]) => flows[y] # FlowFree
  BY <1>1, <1>3, FlowEntryHome
<1>5. /\ e.key \in FlowKey /\ e.verdict \in {"unset", "allow", "drop", "reset"} /\ e.insp \in BOOLEAN
      /\ e.scans \in 0 .. Scans /\ e.age \in 0 .. FlowIdle /\ e.pinned \in BOOLEAN
  BY <1>4 DEF FlowEntry
<1>6. FlowIdle \in Nat /\ Scans \in Nat /\ scan \in BOOLEAN /\ (scan => e.scans < Scans /\ dec = "inspect")
  BY FlowAssumption DEF Scanned
<1>7. scan => e.verdict = "allow"
  BY <1>6 DEF Resolve
<1> HIDE DEF dec, d, scan
<1>8. /\ n \in FlowEntry /\ n.key = e.key
      /\ n.verdict = (IF ~convicted THEN e.verdict ELSE IF v = "reset" THEN "reset" ELSE "drop")
  <2> HIDE DEF e
  <2>1. (IF scan THEN e.scans + 1 ELSE e.scans) \in 0 .. Scans /\ 0 \in 0 .. FlowIdle
    BY <1>5, <1>6
  <2> QED BY <1>4, <1>5, <2>1 DEF FlowEntry
<1> HIDE DEF n
<1>9. e.verdict \in {"drop", "reset"} => n.verdict = e.verdict
  BY <1>7, <1>8
<1>10. n.verdict = "allow" => FlowAllows(p.key)
  <2>1. n.verdict = "allow" => e.verdict = "allow"
    BY <1>8
  <2>2. e.verdict = "allow" => FlowAllows(e.key)
    BY <1>3 DEF FlowInv, AllowedByPolicy, FlowAllows
  <2> QED BY <1>3, <2>1, <2>2
<1>11. FlowWrites(p.key, s, n)
  BY <1>1, <1>2, <1>3, <1>4, <1>8, <1>9, <1>10 DEF FlowWrites
<1> QED BY <1>11

LEMMA MissWrites ==
  ASSUME FlowInv, NEW p \in FlowPacket, NEW v, Miss(p, v)
  PROVE  \E at, e : FlowWrites(p.key, at, e)
<1> DEFINE s == FlowLookup(flows, p.key)
           at == IF s = None THEN Place(flows, p.key) ELSE s
           e == IF s # None THEN flows[s]
                ELSE [key |-> p.key, verdict |-> "unset", insp |-> FALSE, scans |-> 0, age |-> 0,
                      pinned |-> FALSE]
           d == Decision(tables, default, p)
           dec == Resolve(d, Pinned(tables, p), p.side)
           scan == Scanned(dec, e, p)
           convicted == scan /\ v # "pass"
           w == CASE convicted -> IF v = "reset" THEN "reset" ELSE "drop"
                  [] ~convicted /\ dec \in {"forward", "inspect"} -> "allow"
                  [] ~convicted /\ dec = "drop" -> "drop"
                  [] OTHER -> "unset"
           n == [e EXCEPT !.age = 0, !.pinned = Pinned(tables, p),
                     !.scans = IF scan THEN @ + 1 ELSE @,
                     !.insp = @ \/ (dec = "inspect" /\ ~convicted),
                     !.verdict = w]
<1>1. (s # None => flows[s].verdict = "unset") /\ flows' = [flows EXCEPT ![at] = n] /\ FlowWell(flows)
  BY DEF Miss, FlowInv
<1>2. p.key \in FlowKey /\ FlowIdle \in Nat /\ Scans \in Nat /\ 0 \in 0 .. FlowIdle /\ 0 \in 0 .. Scans
  BY FlowAssumption DEF FlowPacket
<1>3. Pinned(tables, p) \in BOOLEAN
  <2>1. tables \in Seq(FlowRows)
    <3>1. <<>> \in Seq(FlowRows) /\ Policies \subseteq Seq(FlowRows)
      BY FlowAssumption
    <3> QED BY <3>1 DEF FlowInv
  <2> QED BY <2>1, FlowPinnedType
<1>4. /\ e \in FlowEntry /\ e.key = p.key /\ e.verdict = "unset"
      /\ at \in FlowSlot /\ FlowDist(at, FlowHome[p.key]) < Window
      /\ \A y \in FlowSlot : FlowDist(y, FlowHome[p.key]) < FlowDist(at, FlowHome[p.key]) => flows[y] # FlowFree
      /\ \A x \in FlowUsed(flows) : flows[x].key = p.key => x = at /\ flows[x].verdict = "unset"
  <2>1. /\ \A x \in FlowUsed(flows) : flows[x].key = p.key => x = s
        /\ s # None => s \in FlowUsed(flows) /\ flows[s].key = p.key
    BY <1>1, <1>2, FlowLookupIs
  <2> HIDE DEF s
  <2>2. CASE s # None
    <3>1. s \in FlowUsed(flows) /\ e = flows[s] /\ e.key = p.key /\ at = s
      BY <2>1, <2>2
    <3>2. s \in FlowSlot /\ flows[s] \in FlowEntry /\ FlowDist(s, FlowHome[flows[s].key]) < Window
          /\ \A y \in FlowSlot :
               FlowDist(y, FlowHome[flows[s].key]) < FlowDist(s, FlowHome[flows[s].key]) => flows[y] # FlowFree
      BY <1>1, <3>1, FlowEntryHome
    <3> HIDE DEF e, at
    <3> QED BY <1>1, <2>1, <2>2, <3>1, <3>2
  <2>3. CASE s = None
    <3>1. at = Place(flows, p.key)
      BY <2>3
    <3>2. /\ at \in FlowSlot /\ FlowDist(at, FlowHome[p.key]) < Window
          /\ \A y \in FlowSlot : FlowDist(y, FlowHome[p.key]) < FlowDist(at, FlowHome[p.key]) => flows[y] # FlowFree
      BY <1>1, <1>2, <3>1, FlowPlaceIs
    <3>3. \A x \in FlowUsed(flows) : flows[x].key # p.key
      <4>1. \A x \in FlowUsed(flows) : x # None
        BY FlowAssumption DEF FlowUsed, FlowSlot
      <4> QED BY <2>1, <2>3, <4>1
    <3>4. e = [key |-> p.key, verdict |-> "unset", insp |-> FALSE, scans |-> 0, age |-> 0, pinned |-> FALSE]
      BY <2>3
    <3>5. e \in FlowEntry /\ e.key = p.key /\ e.verdict = "unset"
      <4> DEFINE new == [key |-> p.key, verdict |-> "unset", insp |-> FALSE, scans |-> 0, age |-> 0, pinned |-> FALSE]
      <4>1. new \in FlowEntry /\ new.key = p.key /\ new.verdict = "unset"
        BY <1>2 DEF FlowEntry
      <4>2. e = new
        BY <3>4
      <4> HIDE DEF new, e
      <4> QED BY <4>1, <4>2
    <3> QED BY <3>2, <3>3, <3>5
  <2> QED BY <2>2, <2>3
<1> HIDE DEF e, at
<1>5. /\ e.key \in FlowKey /\ e.insp \in BOOLEAN
      /\ e.scans \in 0 .. Scans /\ e.age \in 0 .. FlowIdle /\ e.pinned \in BOOLEAN
  BY <1>4 DEF FlowEntry
<1>6. scan \in BOOLEAN /\ (scan => e.scans < Scans /\ dec = "inspect")
  BY DEF Scanned
<1>7. w \in {"unset", "allow", "drop", "reset"} /\ (w = "allow" => dec \in {"forward", "inspect"})
  BY <1>6
<1>8. dec \in {"forward", "inspect"} => d \in {"forward", "inspect"}
  BY DEF Resolve
<1>9. /\ n \in FlowEntry /\ n.key = e.key /\ n.verdict = w
  <2> HIDE DEF dec, scan, w
  <2>1. (IF scan THEN e.scans + 1 ELSE e.scans) \in 0 .. Scans
    BY <1>2, <1>5, <1>6
  <2> QED BY <1>2, <1>3, <1>4, <1>5, <1>7, <2>1 DEF FlowEntry
<1>10. n.verdict = "allow" => FlowAllows(p.key)
  <2>1. default \in defaults
    BY DEF FlowInv
  <2> QED BY <1>7, <1>8, <1>9, <2>1 DEF FlowAllows
<1> HIDE DEF n
<1>11. \A x \in FlowUsed(flows) : flows[x].key = p.key =>
         x = at /\ (flows[x].verdict \in {"drop", "reset"} => n.verdict = flows[x].verdict)
  BY <1>4
<1>12. FlowWrites(p.key, at, n)
  BY <1>1, <1>2, <1>4, <1>9, <1>10, <1>11 DEF FlowWrites
<1> QED BY <1>12

\* What a step leaves of a convicted flow stays convicted.
FlowSentence ==
  \A s \in FlowUsed(flows), x \in FlowUsed(flows') :
    flows'[x].key = flows[s].key /\ flows[s].verdict \in {"drop", "reset"} =>
      flows'[x].verdict = flows[s].verdict
FlowKept == FlowInv' /\ FlowSentence

LEMMA FlowInitInv == FlowInit => FlowInv
<1> SUFFICES ASSUME FlowInit PROVE FlowInv
  OBVIOUS
<1>1. FlowUsed(flows) = {} /\ flows \in FlowTables /\ pos \in FlowSlot
  BY FlowAssumption DEF FlowInit, FlowUsed, FlowTables, FlowSlot
<1>2. FlowWell(flows)
  BY <1>1 DEF FlowWell
<1> QED BY <1>1, <1>2 DEF FlowInit, FlowInv, AllowedByPolicy

\* A flush or a new bank leaves no flow behind.
LEMMA FlowEmptied ==
  ASSUME flows' = [s \in FlowSlot |-> FlowFree], pos' \in FlowSlot,
         tables' \in Policies \cup {<<>>}, default' \in defaults'
  PROVE  FlowKept
<1>1. FlowUsed(flows') = {} /\ flows' \in FlowTables
  BY DEF FlowUsed, FlowTables
<1>2. FlowWell(flows')
  BY <1>1 DEF FlowWell
<1> QED BY <1>1, <1>2 DEF FlowKept, FlowSentence, FlowInv, AllowedByPolicy

\* A step that leaves the policy keeps the invariant if each flow it leaves was
\* there, or is allowed by the policy when it is allowed.
LEMMA FlowCarried ==
  ASSUME FlowInv, FlowWell(flows'), pos' \in FlowSlot, UNCHANGED tables,
         default' \in defaults', defaults \subseteq defaults',
         \A x \in FlowUsed(flows') :
           \/ \E y \in FlowUsed(flows) : flows'[x].key = flows[y].key /\ flows'[x].verdict = flows[y].verdict
           \/ /\ flows'[x].verdict = "allow" => FlowAllows(flows'[x].key)
              /\ \A y \in FlowUsed(flows) : flows'[x].key = flows[y].key /\
                   flows[y].verdict \in {"drop", "reset"} => flows'[x].verdict = flows[y].verdict
  PROVE  FlowKept
<1> DEFINE Allows(k) == \E p \in FlowPacket, d \in defaults' : p.key = k /\ Decision(tables', d, p) \in {"forward", "inspect"}
<1>1. \A k : FlowAllows(k) => Allows(k)
  BY DEF FlowAllows
<1>2. ASSUME NEW x \in FlowUsed(flows')
      PROVE  /\ flows'[x].verdict = "allow" => FlowAllows(flows'[x].key)
             /\ \A y \in FlowUsed(flows) : flows'[x].key = flows[y].key /\
                  flows[y].verdict \in {"drop", "reset"} => flows'[x].verdict = flows[y].verdict
  <2>1. ASSUME NEW y \in FlowUsed(flows), flows'[x].key = flows[y].key, flows'[x].verdict = flows[y].verdict
        PROVE  /\ flows'[x].verdict = "allow" => FlowAllows(flows'[x].key)
               /\ \A z \in FlowUsed(flows) : flows'[x].key = flows[z].key /\
                    flows[z].verdict \in {"drop", "reset"} => flows'[x].verdict = flows[z].verdict
    <3>1. flows[y].verdict = "allow" => FlowAllows(flows[y].key)
      BY DEF FlowInv, AllowedByPolicy, FlowAllows
    <3>2. \A z \in FlowUsed(flows) : flows[z].key = flows[y].key => z = y
      BY DEF FlowInv, FlowWell
    <3> QED BY <2>1, <3>1, <3>2
  <2> QED BY <1>2, <2>1
<1>3. \A x \in FlowUsed(flows') : flows'[x].verdict = "allow" => Allows(flows'[x].key)
  <2> HIDE DEF Allows
  <2> QED BY <1>1, <1>2
<1>4. AllowedByPolicy'
  BY <1>3 DEF AllowedByPolicy
<1> QED BY <1>2, <1>4 DEF FlowKept, FlowSentence, FlowInv

LEMMA FlowProcessInv ==
  ASSUME FlowInv, NEW p \in FlowPacket, FlowProcess(p)
  PROVE  FlowKept
<1>1. PICK v \in Verdict : Hit(p, v) \/ Miss(p, v)
  BY DEF FlowProcess
<1>2. PICK at, e : FlowWrites(p.key, at, e)
  BY <1>1, HitWrites, MissWrites
<1> DEFINE k == p.key
<1>3. /\ at \in FlowSlot /\ e \in FlowEntry /\ e.key = k /\ k \in FlowKey
      /\ flows' = [flows EXCEPT ![at] = e]
      /\ FlowDist(at, FlowHome[k]) < Window
      /\ \A y \in FlowSlot : FlowDist(y, FlowHome[k]) < FlowDist(at, FlowHome[k]) => flows[y] # FlowFree
      /\ \A x \in FlowUsed(flows) : flows[x].key = k =>
           x = at /\ (flows[x].verdict \in {"drop", "reset"} => e.verdict = flows[x].verdict)
      /\ e.verdict = "allow" => FlowAllows(k)
  BY <1>2 DEF FlowWrites
<1>4. /\ FlowWell(flows') /\ FlowUsed(flows') = FlowUsed(flows) \cup {at} /\ flows'[at] = e
      /\ \A x \in FlowSlot : x # at => flows'[x] = flows[x]
  <2>1. FlowWell(flows)
    BY DEF FlowInv
  <2> DEFINE r == [flows EXCEPT ![at] = e]
  <2>2. /\ FlowWell(r) /\ FlowUsed(r) = FlowUsed(flows) \cup {at} /\ r[at] = e
        /\ \A x \in FlowSlot : x # at => r[x] = flows[x]
    <3>1. FlowMay(flows, at, e)
      BY <1>3 DEF FlowMay
    <3> DEFINE t == flows
    <3>2. FlowMay(t, at, e) /\ FlowWell(t)
      BY <2>1, <3>1
    <3> HIDE DEF t
    <3>3. FlowWell([t EXCEPT ![at] = e])
      BY <3>2, FlowPutWell
    <3>4. FlowUsed([t EXCEPT ![at] = e]) = FlowUsed(t) \cup {at}
      BY <3>2, FlowPutWell
    <3>5. [t EXCEPT ![at] = e][at] = e
      BY <3>2 DEF FlowMay, FlowWell, FlowTables
    <3>6. \A x \in FlowSlot : x # at => [t EXCEPT ![at] = e][x] = t[x]
      BY <3>2 DEF FlowWell, FlowTables
    <3> QED BY <3>3, <3>4, <3>5, <3>6 DEF t
  <2>3. flows' = r
    BY <1>3
  <2> HIDE DEF r
  <2> QED BY <2>2, <2>3
<1>5. ASSUME NEW x \in FlowUsed(flows')
      PROVE  \/ \E y \in FlowUsed(flows) : flows'[x].key = flows[y].key /\ flows'[x].verdict = flows[y].verdict
             \/ /\ flows'[x].verdict = "allow" => FlowAllows(flows'[x].key)
                /\ \A y \in FlowUsed(flows) : flows'[x].key = flows[y].key /\
                     flows[y].verdict \in {"drop", "reset"} => flows'[x].verdict = flows[y].verdict
  <2>1. CASE x = at
    BY <1>3, <1>4, <2>1
  <2>2. CASE x # at
    <3>1. x \in FlowUsed(flows) /\ flows'[x] = flows[x]
      BY <1>4, <2>2 DEF FlowUsed
    <3> QED BY <3>1
  <2> QED BY <2>1, <2>2
<1>6. pos' \in FlowSlot /\ UNCHANGED tables /\ default' \in defaults' /\ defaults \subseteq defaults'
  BY DEF FlowProcess, FlowInv
<1> QED BY <1>4, <1>5, <1>6, FlowCarried

LEMMA FlowPollInv ==
  ASSUME FlowInv, FlowPoll
  PROVE  FlowKept
<1> DEFINE Older == [s \in FlowSlot |-> IF flows[s] = FlowFree \/ flows[s].age = FlowIdle THEN flows[s]
                                        ELSE [flows[s] EXCEPT !.age = @ + 1]]
           w == FlowSweep(Older, pos)
<1>1. pos' = w.at /\ flows' = w.tab /\ UNCHANGED <<tables, default, defaults, route>>
  BY DEF FlowPoll
<1>2. FlowWell(flows) /\ pos \in FlowSlot /\ flows \in FlowTables
  BY DEF FlowInv, FlowWell
<1>3. \A s \in FlowUsed(flows) : Older[s] \in FlowEntry /\ Older[s].key = flows[s].key /\ Older[s].verdict = flows[s].verdict
  <2> SUFFICES ASSUME NEW s \in FlowUsed(flows)
               PROVE  Older[s] \in FlowEntry /\ Older[s].key = flows[s].key /\ Older[s].verdict = flows[s].verdict
    OBVIOUS
  <2>1. s \in FlowSlot /\ flows[s] \in FlowEntry /\ flows[s] # FlowFree
    BY <1>2 DEF FlowUsed, FlowTables
  <2> DEFINE e == flows[s]
             n == [e EXCEPT !.age = @ + 1]
  <2>2. Older[s] = IF e.age = FlowIdle THEN e ELSE n
    BY <2>1
  <2>3. n.key = e.key /\ n.verdict = e.verdict
    BY <2>1 DEF FlowEntry
  <2>4. e.age # FlowIdle => n \in FlowEntry
    <3> HIDE DEF e
    <3>1. e.age # FlowIdle => e.age + 1 \in 0 .. FlowIdle
      BY <2>1, FlowAssumption DEF FlowEntry, e
    <3> QED BY <2>1, <3>1 DEF FlowEntry, e
  <2> HIDE DEF Older, n
  <2> QED BY <2>1, <2>2, <2>3, <2>4
<1>4. FlowUsed(Older) = FlowUsed(flows) /\ Older \in FlowTables
  <2>1. \A s \in FlowSlot : s \notin FlowUsed(flows) => flows[s] = FlowFree /\ Older[s] = FlowFree
    BY DEF FlowUsed
  <2>2. \A s \in FlowUsed(flows) : Older[s] # FlowFree
    <3> HIDE DEF Older
    <3> QED BY <1>3, FlowAssumption
  <2>3. Older = [s \in FlowSlot |-> Older[s]]
    OBVIOUS
  <2> HIDE DEF Older
  <2>4. FlowUsed(Older) = FlowUsed(flows)
    BY <2>1, <2>2 DEF FlowUsed
  <2>5. \A s \in FlowSlot : Older[s] \in FlowEntry \cup {FlowFree}
    BY <1>3, <2>1
  <2> QED BY <2>3, <2>4, <2>5 DEF FlowTables
<1> HIDE DEF Older
<1>5. FlowWell(Older)
  <2>1. \A x \in FlowUsed(flows) : FlowReached(Older, x)
    <3> SUFFICES ASSUME NEW x \in FlowUsed(flows) PROVE FlowReached(Older, x)
      OBVIOUS
    <3>1. FlowReached(flows, x) /\ Older[x].key = flows[x].key
      BY <1>2, <1>3 DEF FlowWell
    <3>2. \A y \in FlowSlot : flows[y] # FlowFree => Older[y] # FlowFree
      BY <1>4 DEF FlowUsed
    <3> QED BY <3>1, <3>2 DEF FlowReached, FlowOff
  <2>2. \A x, y \in FlowUsed(flows) : Older[x].key = Older[y].key => x = y
    BY <1>2, <1>3 DEF FlowWell
  <2> QED BY <1>4, <2>1, <2>2 DEF FlowWell
<1>6. w \in SweepOf(Older)
  BY <1>2, <1>5, FlowSweepWell
<1> HIDE DEF w
<1>7. w.at \in FlowSlot /\ FlowWell(w.tab) /\ \A x \in FlowUsed(w.tab) : \E y \in FlowUsed(Older) : w.tab[x] = Older[y]
  BY <1>6 DEF SweepOf
<1>8. \A x \in FlowUsed(flows') :
        \E y \in FlowUsed(flows) : flows'[x].key = flows[y].key /\ flows'[x].verdict = flows[y].verdict
  BY <1>1, <1>3, <1>4, <1>7
<1>9. FlowWell(flows') /\ pos' \in FlowSlot /\ UNCHANGED tables /\ default' \in defaults' /\ defaults \subseteq defaults'
  BY <1>1, <1>7 DEF FlowInv
<1> QED BY <1>8, <1>9, FlowCarried

LEMMA FlowStepKept ==
  ASSUME FlowInv, [FlowNext]_flowVars
  PROVE  FlowKept
<1>1. ASSUME NEW rows \in Policies, SetBank(rows) PROVE FlowKept
  BY <1>1, FlowEmptied DEF SetBank, FlowInv
<1>2. CASE FlushFlows
  BY <1>2, FlowEmptied DEF FlushFlows, FlowInv
<1>3. ASSUME UNCHANGED <<flows, pos, tables>>, default' \in defaults', defaults \subseteq defaults'
      PROVE  FlowKept
  <2>1. FlowWell(flows') /\ pos' \in FlowSlot
    BY <1>3 DEF FlowInv
  <2>2. \A x \in FlowUsed(flows') :
          \E y \in FlowUsed(flows) : flows'[x].key = flows[y].key /\ flows'[x].verdict = flows[y].verdict
    BY <1>3
  <2> QED BY <1>3, <2>1, <2>2, FlowCarried
<1>4. ASSUME NEW d, SetDefault(d) PROVE FlowKept
  BY <1>3, <1>4 DEF SetDefault
<1>5. ASSUME NEW side, Neighbour(side) PROVE FlowKept
  BY <1>3, <1>5 DEF Neighbour, FlowInv
<1>6. CASE UNCHANGED flowVars
  BY <1>3, <1>6 DEF flowVars, FlowInv
<1> QED BY <1>1, <1>2, <1>4, <1>5, <1>6, FlowProcessInv, FlowPollInv DEF FlowNext

LEMMA FlowInvSafe == FlowInv => FlowSafe
<1> SUFFICES ASSUME FlowInv PROVE FlowSafe
  OBVIOUS
<1>1. FlowWell(flows) /\ flows \in FlowTables
  BY DEF FlowInv, FlowWell
<1>2. FlowTypeOK
  BY <1>1 DEF FlowTypeOK, FlowInv, FlowTables, FlowUsed
<1>3. FlowsFindable
  <2> SUFFICES ASSUME NEW s \in FlowUsed(flows)
               PROVE  /\ FlowLookup(flows, flows[s].key) = s
                      /\ \A r \in FlowUsed(flows) : flows[r].key = flows[s].key => r = s
    BY DEF FlowsFindable
  <2>1. flows[s].key \in FlowKey
    BY <1>1, FlowEntryAt
  <2>2. FlowLookup(flows, flows[s].key) = s
    BY <1>1, <2>1, FlowLookupIs
  <2> QED BY <1>1, <2>2 DEF FlowWell
<1> QED BY <1>2, <1>3 DEF FlowSafe, FlowInv

\* Every flow of the cache is where a lookup finds it, once, and what the cache
\* allows the policy allows: for every table size, window, hash and policy, and
\* every sequence of packets, commands and sweeps (dp_process, dp_flow_sweep).
THEOREM FlowCacheSafe == FlowSpec => []FlowSafe
<1>1. FlowInv /\ [FlowNext]_flowVars => FlowInv'
  BY FlowStepKept DEF FlowKept
<1> QED BY <1>1, FlowInitInv, FlowInvSafe, PTL DEF FlowSpec

\* "Once a flow is convicted ... every later packet drops out of the cache".
THEOREM FlowConvictionSticks == FlowSpec => ConvictionSticks
<1> DEFINE Sticks == \A s \in FlowUsed(flows) :
       LET k == flows[s].key
           t == FlowLookup(flows', k)
       IN  flows[s].verdict \in {"drop", "reset"} /\ t # None => flows'[t].verdict = flows[s].verdict
<1>1. FlowInv /\ [FlowNext]_flowVars => FlowInv'
  BY FlowStepKept DEF FlowKept
<1>2. ASSUME FlowInv, [FlowNext]_flowVars PROVE Sticks
  <2> SUFFICES ASSUME NEW s \in FlowUsed(flows), flows[s].verdict \in {"drop", "reset"},
                      FlowLookup(flows', flows[s].key) # None
               PROVE  flows'[FlowLookup(flows', flows[s].key)].verdict = flows[s].verdict
    OBVIOUS
  <2> DEFINE t == FlowLookup(flows', flows[s].key)
  <2>1. FlowWell(flows) /\ FlowWell(flows') /\ FlowSentence
    BY <1>2, FlowStepKept DEF FlowKept, FlowInv
  <2>2. flows[s].key \in FlowKey
    BY <2>1, FlowEntryAt DEF FlowWell
  <2>3. t \in FlowUsed(flows') /\ flows'[t].key = flows[s].key
    BY <2>1, <2>2, FlowLookupIs
  <2> HIDE DEF t
  <2> QED BY <2>1, <2>3 DEF FlowSentence, t
<1>3. FlowInv /\ [FlowNext]_flowVars => [Sticks]_flowVars
  BY <1>2
<1> HIDE DEF Sticks
<1>4. FlowSpec => [][Sticks]_flowVars
  BY <1>1, <1>3, FlowInitInv, PTL DEF FlowSpec
<1> QED BY <1>4 DEF ConvictionSticks, Sticks

-----------------------------------------------------------------------------
(***************************************************************************)
(* Open-addressed tables whose removal puts the rest of the cluster in     *)
(* again: the routing table and the neighbour table.  A table h has h.n    *)
(* slots, values h.val with a key each, a home slot for every key, and     *)
(* h.again says what a value becomes when it is put in again.              *)
(***************************************************************************)
HashArgs(h) ==
  /\ h.n \in Nat \ {0} /\ h.free \notin h.val
  /\ h.key \in [h.val -> h.keys] /\ h.home \in [h.keys -> 0 .. h.n - 1]
  /\ h.again \in [h.val -> h.val] /\ \A v \in h.val : h.key[h.again[v]] = h.key[v]
HashSlot(h) == 0 .. h.n - 1
HashTable(h) == [HashSlot(h) -> h.val \cup {h.free}]
HashUsed(h, t) == {x \in HashSlot(h) : t[x] # h.free}
HashDist(h, a, b) == (a - b) % h.n
HashHome(h, v) == h.home[h.key[v]]
\* No free slot between home and the entry at x, and one entry to a key.
HashReached(h, t, x) ==
  \A y \in HashSlot(h) :
    HashDist(h, y, HashHome(h, t[x])) <= HashDist(h, x, HashHome(h, t[x])) => t[y] # h.free
HashWell(h, t) ==
  /\ t \in HashTable(h)
  /\ \A x \in HashUsed(h, t) : HashReached(h, t, x)
  /\ \A x, y \in HashUsed(h, t) : h.key[t[x]] = h.key[t[y]] => x = y
\* Where a probe for key k ends.
HashEnd(h, t, k, x) ==
  /\ x \in HashSlot(h) /\ (t[x] = h.free \/ h.key[t[x]] = k)
  /\ \A y \in HashSlot(h) : HashDist(h, y, h.home[k]) < HashDist(h, x, h.home[k]) =>
       t[y] # h.free /\ h.key[t[y]] # k

LEMMA HashDistIs ==
  ASSUME NEW h, HashArgs(h), NEW a \in HashSlot(h), NEW b \in HashSlot(h)
  PROVE  /\ HashDist(h, a, b) \in HashSlot(h) /\ HashDist(h, a, b) \in Nat /\ HashDist(h, a, b) < h.n
         /\ a \in Int /\ b \in Int /\ h.n \in Int /\ a >= 0 /\ b >= 0 /\ a < h.n /\ b < h.n
         /\ HashDist(h, a, b) = IF a >= b THEN a - b ELSE a - b + h.n
<1> DEFINE N == h.n
<1>1. N \in Nat \ {0} /\ a \in 0 .. N - 1 /\ b \in 0 .. N - 1
  BY DEF HashArgs, HashSlot
<1>2. HashDist(h, a, b) = (a - b) % N
  BY DEF HashDist
<1> HIDE DEF N
<1>3. (a - b) % N = IF a >= b THEN a - b ELSE a - b + N
  <2>1. CASE a >= b
    BY <1>1, <2>1, SmallMod
  <2>2. CASE a < b
    <3>1. a - b + N \in 0 .. N - 1 /\ a - b = N * (-1) + (a - b + N)
      BY <1>1, <2>2
    <3>2. (N * (-1) + (a - b + N)) % N = a - b + N
      BY <1>1, <3>1, ModUnique
    <3> QED BY <1>1, <2>2, <3>1, <3>2
  <2> QED BY <1>1, <2>1, <2>2
<1>4. (a - b) % N \in 0 .. N - 1
  BY <1>1, <1>3
<1> QED BY <1>1, <1>2, <1>3, <1>4 DEF N, HashSlot

\* Distances round the table: a slot is at its own distance, and what lies
\* between two slots of an arc lies on it.
LEMMA HashArc ==
  ASSUME NEW h, HashArgs(h), NEW x \in HashSlot(h), NEW o \in HashSlot(h), NEW y \in HashSlot(h)
  PROVE  /\ HashDist(h, y, o) = HashDist(h, x, o) => x = y
         /\ HashDist(h, o, o) = 0
         /\ HashDist(h, x, o) = 0 => x = o
BY HashDistIs

LEMMA HashPast ==
  ASSUME NEW h, HashArgs(h), NEW x \in HashSlot(h), NEW o \in HashSlot(h), NEW s \in HashSlot(h),
         NEW m \in HashSlot(h), NEW f \in HashSlot(h),
         HashDist(h, m, o) <= HashDist(h, x, o)
  PROVE  /\ HashDist(h, x, s) < HashDist(h, m, s) /\ HashDist(h, m, s) < HashDist(h, f, s) =>
              HashDist(h, f, o) <= HashDist(h, x, o)
         /\ HashDist(h, m, s) < HashDist(h, f, s) /\ HashDist(h, f, s) < HashDist(h, x, s) =>
              HashDist(h, f, o) <= HashDist(h, x, o)
<1> DEFINE N == h.n
           D(a, b) == IF a >= b THEN a - b ELSE a - b + N
<1>1. /\ HashDist(h, m, o) = D(m, o) /\ HashDist(h, x, o) = D(x, o) /\ HashDist(h, f, o) = D(f, o)
      /\ HashDist(h, x, s) = D(x, s) /\ HashDist(h, m, s) = D(m, s) /\ HashDist(h, f, s) = D(f, s)
  BY HashDistIs
<1>2. N \in Nat \ {0} /\ \A a \in {x, o, s, m, f} : a \in 0 .. N - 1
  BY DEF HashArgs, HashSlot
<1> HIDE DEF N
<1> QED BY <1>1, <1>2

\* The probe for a key ends where its entry is, or where one may be put.
LEMMA HashEndOnly ==
  ASSUME NEW h, HashArgs(h), NEW t, NEW k \in h.keys, NEW x, NEW y, HashEnd(h, t, k, x), HashEnd(h, t, k, y)
  PROVE  x = y
<1>1. h.home[k] \in HashSlot(h) /\ x \in HashSlot(h) /\ y \in HashSlot(h)
  BY DEF HashArgs, HashSlot, HashEnd
<1>2. HashDist(h, x, h.home[k]) \in Nat /\ HashDist(h, y, h.home[k]) \in Nat
  BY <1>1, HashDistIs
<1>3. ~(HashDist(h, x, h.home[k]) < HashDist(h, y, h.home[k])) /\ ~(HashDist(h, y, h.home[k]) < HashDist(h, x, h.home[k]))
  BY <1>1 DEF HashEnd
<1> QED BY <1>1, <1>2, <1>3, HashArc

LEMMA HashHomeIn ==
  ASSUME NEW h, HashArgs(h), NEW t \in HashTable(h), NEW x \in HashUsed(h, t)
  PROVE  x \in HashSlot(h) /\ t[x] \in h.val /\ h.key[t[x]] \in h.keys /\ HashHome(h, t[x]) \in HashSlot(h)
<1>1. x \in HashSlot(h) /\ t[x] \in h.val
  BY DEF HashUsed, HashTable
<1> QED BY <1>1 DEF HashArgs, HashSlot, HashHome

LEMMA HashFound ==
  ASSUME NEW h, HashArgs(h), NEW t, HashWell(h, t), NEW x \in HashUsed(h, t)
  PROVE  HashEnd(h, t, h.key[t[x]], x)
<1> DEFINE k == h.key[t[x]]
           o == HashHome(h, t[x])
<1>1. x \in HashSlot(h) /\ o \in HashSlot(h) /\ HashReached(h, t, x)
  BY HashHomeIn DEF HashWell
<1> SUFFICES ASSUME NEW y \in HashSlot(h), HashDist(h, y, o) < HashDist(h, x, o)
             PROVE  t[y] # h.free /\ h.key[t[y]] # k
  BY <1>1 DEF HashEnd, HashHome
<1>2. HashDist(h, y, o) \in Nat /\ HashDist(h, x, o) \in Nat
  BY <1>1, HashDistIs
<1>3. y # x
  BY <1>2
<1>4. t[y] # h.free
  BY <1>1, <1>2 DEF HashReached
<1> QED BY <1>3, <1>4 DEF HashWell, HashUsed

HashWith(t, l, v) == [t EXCEPT ![l] = v]
\* Writing a value where the probe for its key ends keeps every entry findable.
LEMMA HashPutWell ==
  ASSUME NEW h, HashArgs(h), NEW t, HashWell(h, t), NEW v \in h.val, NEW l, HashEnd(h, t, h.key[v], l),
         NEW r, r = HashWith(t, l, v)
  PROVE  HashWell(h, r) /\ HashUsed(h, r) = HashUsed(h, t) \cup {l}
<1> DEFINE k == h.key[v]
           o == h.home[k]
<1>1. l \in HashSlot(h) /\ t \in HashTable(h) /\ v # h.free /\ k \in h.keys /\ o \in HashSlot(h)
  BY DEF HashEnd, HashWell, HashArgs, HashSlot
<1>2. r \in HashTable(h) /\ r[l] = v /\ \A x \in HashSlot(h) : x # l => r[x] = t[x]
  BY <1>1 DEF HashTable, HashWith
<1>3. HashUsed(h, r) = HashUsed(h, t) \cup {l}
  BY <1>1, <1>2 DEF HashUsed
<1>4. \A y \in HashSlot(h) : t[y] # h.free => r[y] # h.free
  BY <1>1, <1>2
<1>5. ASSUME NEW x \in HashUsed(h, r) PROVE HashReached(h, r, x)
  <2>1. CASE x = l
    <3>1. ASSUME NEW y \in HashSlot(h), HashDist(h, y, o) <= HashDist(h, l, o) PROVE r[y] # h.free
      <4>1. HashDist(h, y, o) \in Nat /\ HashDist(h, l, o) \in Nat
        BY <1>1, HashDistIs
      <4>2. CASE HashDist(h, y, o) < HashDist(h, l, o)
        BY <1>4, <4>2 DEF HashEnd
      <4>3. CASE HashDist(h, y, o) = HashDist(h, l, o)
        BY <1>1, <1>2, <4>3, HashArc
      <4> QED BY <3>1, <4>1, <4>2, <4>3
    <3> QED BY <1>2, <2>1, <3>1 DEF HashReached, HashHome
  <2>2. CASE x # l
    <3>1. x \in HashUsed(h, t) /\ r[x] = t[x]
      BY <1>2, <1>3, <2>2 DEF HashUsed
    <3>2. HashReached(h, t, x)
      BY <3>1 DEF HashWell
    <3> QED BY <1>4, <3>1, <3>2 DEF HashReached
  <2> QED BY <2>1, <2>2
\* An entry of the key can only be where the probe ends.
<1>6. ASSUME NEW x \in HashUsed(h, t), h.key[t[x]] = k PROVE x = l
  <2>1. HashEnd(h, t, k, x)
    BY <1>6, HashFound
  <2> QED BY <1>1, <2>1, HashEndOnly
<1>7. ASSUME NEW x \in HashUsed(h, r), NEW y \in HashUsed(h, r), h.key[r[x]] = h.key[r[y]] PROVE x = y
  <2>1. \A z \in HashUsed(h, r) : z # l => z \in HashUsed(h, t) /\ r[z] = t[z]
    BY <1>2, <1>3 DEF HashUsed
  <2>2. \A z \in HashUsed(h, r) : h.key[r[z]] = k => z = l
    BY <1>6, <2>1
  <2>3. CASE x = l \/ y = l
    BY <1>2, <1>7, <2>2, <2>3
  <2>4. CASE x # l /\ y # l
    BY <1>7, <2>1, <2>4 DEF HashWell
  <2> QED BY <2>3, <2>4
<1>8. HashWell(h, r)
  BY <1>2, <1>5, <1>7 DEF HashWell
<1> QED BY <1>3, <1>8

-----------------------------------------------------------------------------
(* Removal.  The slot s is cleared and the entries after it, up to a free  *)
(* slot, are taken out and put in again one by one.                        *)

\* What is left of table t without the entry at s.
HashFrom(h, t, s, r) ==
  /\ r \in HashTable(h)
  /\ \A x \in HashUsed(h, r) : \E y \in HashUsed(h, t) \ {s} : r[x] \in {t[y], h.again[t[y]]}
  /\ \A y \in HashUsed(h, t) \ {s} : \E x \in HashUsed(h, r) : r[x] \in {t[y], h.again[t[y]]}
  /\ \A x, y \in HashUsed(h, r) : h.key[r[x]] = h.key[r[y]] => x = y
  /\ Cardinality(HashUsed(h, r)) = Cardinality(HashUsed(h, t)) - 1
\* After the n slots that follow s: entries in them can be found, the others are
\* untouched, and miss at most slots already walked.
HashWalk(h, t, s, n, r) ==
  /\ HashWell(h, t) /\ s \in HashUsed(h, t) /\ n \in Nat /\ n < h.n
  /\ \E f \in HashSlot(h) : t[f] = h.free
  /\ \A y \in HashSlot(h) : HashDist(h, y, s) \in 1 .. n => t[y] # h.free
  /\ \A y \in HashSlot(h) : HashDist(h, y, s) > n => r[y] = t[y]
  /\ HashFrom(h, t, s, r)
  /\ \A x \in HashUsed(h, r) : HashDist(h, x, s) <= n => HashReached(h, r, x)
  /\ \A x \in HashUsed(h, r) : HashDist(h, x, s) > n =>
       \A y \in HashSlot(h) :
         HashDist(h, y, HashHome(h, r[x])) <= HashDist(h, x, HashHome(h, r[x])) /\ r[y] = h.free =>
           HashDist(h, y, s) <= n
\* The whole cluster has been seen.
HashRest(h, t, s, r) == HashWell(h, r) /\ HashFrom(h, t, s, r)

LEMMA HashFinite ==
  ASSUME NEW h, HashArgs(h), NEW t
  PROVE  IsFiniteSet(HashUsed(h, t)) /\ Cardinality(HashUsed(h, t)) \in Nat
<1>1. h.n - 1 \in Int /\ 0 \in Int
  BY DEF HashArgs
<1>2. IsFiniteSet(0 .. h.n - 1)
  BY <1>1, FS_Interval
<1>3. HashUsed(h, t) \in SUBSET (0 .. h.n - 1)
  BY DEF HashUsed, HashSlot
<1> QED BY <1>2, <1>3, FS_Subset, FS_CardinalityType

LEMMA HashWalkStarts ==
  ASSUME NEW h, HashArgs(h), NEW t, HashWell(h, t), NEW s \in HashUsed(h, t),
         NEW f \in HashSlot(h), t[f] = h.free
  PROVE  HashWalk(h, t, s, 0, [t EXCEPT ![s] = h.free])
<1> DEFINE r == [t EXCEPT ![s] = h.free]
<1>1. t \in HashTable(h) /\ s \in HashSlot(h) /\ h.n \in Nat /\ 0 < h.n
  BY DEF HashWell, HashUsed, HashArgs
<1>2. r \in HashTable(h) /\ r[s] = h.free /\ \A x \in HashSlot(h) : x # s => r[x] = t[x]
  BY <1>1 DEF HashTable
<1> HIDE DEF r
<1>3. HashUsed(h, r) = HashUsed(h, t) \ {s}
  BY <1>2 DEF HashUsed
<1>4. Cardinality(HashUsed(h, r)) = Cardinality(HashUsed(h, t)) - 1
  BY <1>3, HashFinite, FS_RemoveElement
<1>5. \A x \in HashUsed(h, r) : x \in HashUsed(h, t) /\ x # s /\ r[x] = t[x]
  BY <1>2, <1>3 DEF HashUsed
<1>6. \A x \in HashUsed(h, t) \ {s} : x \in HashUsed(h, r) /\ r[x] = t[x]
  BY <1>3, <1>5
<1>7. HashFrom(h, t, s, r)
  <2>1. \A x, y \in HashUsed(h, r) : h.key[r[x]] = h.key[r[y]] => x = y
    BY <1>5 DEF HashWell
  <2> QED BY <1>2, <1>4, <1>5, <1>6, <2>1 DEF HashFrom
<1>8. \A y \in HashSlot(h) : HashDist(h, y, s) \in Nat /\ (HashDist(h, y, s) = 0 => y = s) /\ HashDist(h, s, s) = 0
  BY <1>1, HashDistIs, HashArc
<1>9. \A y \in HashSlot(h) : ~(HashDist(h, y, s) \in 1 .. 0) /\ (HashDist(h, y, s) > 0 => r[y] = t[y])
  BY <1>2, <1>8
<1>10. \A x \in HashUsed(h, r) : x \in HashSlot(h) /\ HashDist(h, x, s) > 0
  BY <1>5, <1>8 DEF HashUsed
<1>11. ASSUME NEW x \in HashUsed(h, r), NEW y \in HashSlot(h),
              HashDist(h, y, HashHome(h, r[x])) <= HashDist(h, x, HashHome(h, r[x])), r[y] = h.free
       PROVE  HashDist(h, y, s) <= 0
  <2>1. HashReached(h, t, x) /\ r[x] = t[x]
    BY <1>5 DEF HashWell
  <2>2. t[y] # h.free
    BY <1>11, <2>1 DEF HashReached
  <2>3. y = s
    BY <1>2, <1>11, <2>2
  <2> QED BY <1>8, <2>3
<1>12. \A x \in HashUsed(h, r) : ~(HashDist(h, x, s) <= 0)
  BY <1>8, <1>10
<1> QED BY <1>1, <1>7, <1>9, <1>11, <1>12 DEF HashWalk, r

\* The next slot is free: the cluster ends before it.
LEMMA HashWalkDone ==
  ASSUME NEW h, HashArgs(h), NEW t, NEW s, NEW n, NEW r, HashWalk(h, t, s, n, r),
         NEW m \in HashSlot(h), HashDist(h, m, s) = n + 1, r[m] = h.free
  PROVE  HashRest(h, t, s, r)
<1>1. /\ r \in HashTable(h) /\ HashFrom(h, t, s, r) /\ n \in Nat /\ s \in HashSlot(h)
      /\ \A x, y \in HashUsed(h, r) : h.key[r[x]] = h.key[r[y]] => x = y
  BY DEF HashWalk, HashFrom, HashUsed
<1>2. ASSUME NEW x \in HashUsed(h, r), ~(HashDist(h, x, s) <= n) PROVE HashReached(h, r, x)
  <2> DEFINE o == HashHome(h, r[x])
  <2>1. x \in HashSlot(h) /\ o \in HashSlot(h) /\ x # m
    BY <1>1, HashHomeIn DEF HashUsed
  <2> SUFFICES ASSUME NEW y \in HashSlot(h), HashDist(h, y, o) <= HashDist(h, x, o), r[y] = h.free
               PROVE  FALSE
    BY DEF HashReached
  <2>2. HashDist(h, x, s) \in Nat /\ HashDist(h, y, s) \in Nat /\ HashDist(h, x, s) # n + 1
    <3>1. HashDist(h, x, s) # n + 1
      BY <1>1, <2>1, HashArc
    <3> HIDE DEF o
    <3> QED BY <1>1, <2>1, <3>1, HashDistIs
  <2>3. HashDist(h, x, s) > n /\ HashDist(h, m, s) < HashDist(h, x, s)
    BY <1>1, <1>2, <2>2
  <2>4. HashDist(h, y, s) <= n
    BY <1>1, <2>3 DEF HashWalk
  <2>5. HashDist(h, m, o) <= HashDist(h, x, o)
    <3>1. HashDist(h, y, s) < HashDist(h, m, s)
      BY <1>1, <2>2, <2>4
    <3> HIDE DEF o
    <3> QED BY <1>1, <2>1, <2>3, <3>1, HashPast
  <2>6. HashDist(h, m, s) <= n
    BY <1>1, <2>3, <2>5 DEF HashWalk
  <2> QED BY <1>1, <2>6
<1>3. \A x \in HashUsed(h, r) : HashReached(h, r, x)
  BY <1>2 DEF HashWalk
<1> QED BY <1>1, <1>3 DEF HashRest, HashWell

\* After the last slot the free one has been met.
LEMMA HashWalkEnds ==
  ASSUME NEW h, HashArgs(h), NEW t, NEW s, NEW r, HashWalk(h, t, s, h.n - 1, r)
  PROVE  FALSE
<1>1. PICK f \in HashSlot(h) : t[f] = h.free
  BY DEF HashWalk
<1>2. s \in HashSlot(h) /\ t[s] # h.free
  BY DEF HashWalk, HashUsed
<1>3. HashDist(h, f, s) \in Nat /\ HashDist(h, f, s) < h.n /\ HashDist(h, f, s) # 0 /\ h.n \in Nat
  BY <1>1, <1>2, HashDistIs, HashArc DEF HashArgs
<1>4. HashDist(h, f, s) \in 1 .. h.n - 1
  BY <1>3
<1> QED BY <1>1, <1>4 DEF HashWalk

\* The entry at the next slot is put in again.
LEMMA HashWalkOn ==
  ASSUME NEW h, HashArgs(h), NEW t, NEW s, NEW n, NEW r, HashWalk(h, t, s, n, r), n + 1 < h.n,
         NEW m \in HashSlot(h), HashDist(h, m, s) = n + 1, r[m] # h.free,
         NEW l, HashEnd(h, [r EXCEPT ![m] = h.free], h.key[r[m]], l)
  PROVE  HashWalk(h, t, s, n + 1, [[r EXCEPT ![m] = h.free] EXCEPT ![l] = h.again[r[m]]])
<1> DEFINE r0 == [r EXCEPT ![m] = h.free]
           w == [r0 EXCEPT ![l] = h.again[r[m]]]
           v == h.again[r[m]]
           k == h.key[r[m]]
           o == h.home[k]
<1>1. /\ HashWell(h, t) /\ t \in HashTable(h) /\ s \in HashSlot(h) /\ n \in Nat /\ r \in HashTable(h)
      /\ HashFrom(h, t, s, r) /\ s \in HashUsed(h, t) /\ t[s] # h.free
  BY DEF HashWalk, HashFrom, HashUsed, HashWell
<1>2. /\ m \in HashUsed(h, r) /\ r[m] = t[m] /\ m \in HashUsed(h, t) /\ m # s
  <2>1. HashDist(h, m, s) > n
    BY <1>1
  <2>2. r[m] = t[m]
    BY <2>1 DEF HashWalk
  <2>3. HashDist(h, s, s) = 0
    BY <1>1, HashArc
  <2> QED BY <1>1, <2>2, <2>3 DEF HashUsed
<1>3. /\ r[m] \in h.val /\ v \in h.val /\ v # h.free /\ h.key[v] = k /\ k \in h.keys /\ o \in HashSlot(h)
      /\ o = HashHome(h, r[m]) /\ o = HashHome(h, v)
  <2>1. r[m] \in h.val
    BY <1>1, <1>2, HashHomeIn
  <2> QED BY <2>1 DEF HashArgs, HashHome, HashSlot
<1>4. r0 \in HashTable(h) /\ r0[m] = h.free /\ \A x \in HashSlot(h) : x # m => r0[x] = r[x]
  BY <1>1 DEF HashTable
<1> HIDE DEF r0
<1>5. /\ l \in HashSlot(h) /\ (r0[l] = h.free \/ h.key[r0[l]] = k)
      /\ \A y \in HashSlot(h) : HashDist(h, y, o) < HashDist(h, l, o) => r0[y] # h.free /\ h.key[r0[y]] # k
  BY DEF HashEnd, r0
<1>6. w \in HashTable(h) /\ w[l] = v /\ \A x \in HashSlot(h) : x # l => w[x] = r0[x]
  BY <1>3, <1>4, <1>5 DEF HashTable
<1> HIDE DEF v, w
\* It lands at the slot just cleared or at one walked before.
<1>7. r0[l] = h.free
  <2> SUFFICES ASSUME r0[l] # h.free PROVE FALSE
    OBVIOUS
  <2>1. l # m /\ r[l] = r0[l] /\ h.key[r[l]] = k /\ l \in HashUsed(h, r)
    BY <1>4, <1>5 DEF HashUsed
  <2> QED BY <1>1, <1>2, <2>1 DEF HashFrom
<1>8. \A y \in HashSlot(h) : HashDist(h, y, o) \in Nat /\ HashDist(h, y, s) \in Nat
  BY <1>1, <1>3, HashDistIs
<1>9. HashDist(h, l, o) <= HashDist(h, m, o)
  BY <1>4, <1>5, <1>8
<1>10. HashDist(h, l, s) <= n + 1
  <2>1. CASE l = m
    BY <1>1, <2>1
  <2>2. CASE l # m
    <3>1. r[l] = h.free
      BY <1>4, <1>5, <1>7, <2>2
    <3>2. HashDist(h, m, s) > n
      BY <1>1
    <3>3. HashDist(h, l, s) <= n
      BY <1>2, <1>3, <1>5, <1>9, <3>1, <3>2 DEF HashWalk
    <3> QED BY <1>1, <1>5, <1>8, <3>3
  <2> QED BY <2>1, <2>2
<1>11. HashUsed(h, w) = (HashUsed(h, r) \ {m}) \cup {l} /\ l \notin HashUsed(h, r) \ {m}
  <2>1. \A x \in HashSlot(h) : x # l => (w[x] # h.free <=> r[x] # h.free /\ x # m)
    BY <1>4, <1>6
  <2>2. w[l] # h.free
    BY <1>3, <1>6
  <2>3. l # m => r[l] = h.free
    BY <1>4, <1>5, <1>7
  <2> QED BY <1>5, <2>1, <2>2, <2>3 DEF HashUsed
<1>12. \A x \in HashUsed(h, w) : x # l => x \in HashUsed(h, r) /\ x # m /\ w[x] = r[x] /\ x \in HashSlot(h)
  BY <1>4, <1>6, <1>11 DEF HashUsed
<1>13. Cardinality(HashUsed(h, w)) = Cardinality(HashUsed(h, t)) - 1
  <2> DEFINE U == HashUsed(h, r)
  <2>1. IsFiniteSet(U) /\ Cardinality(U) \in Nat /\ Cardinality(U) = Cardinality(HashUsed(h, t)) - 1
    BY <1>1, HashFinite DEF HashFrom
  <2> HIDE DEF U
  <2>2. IsFiniteSet(U \ {m}) /\ Cardinality(U \ {m}) = Cardinality(U) - 1
    BY <1>2, <2>1, FS_RemoveElement DEF U
  <2>3. Cardinality((U \ {m}) \cup {l}) = Cardinality(U \ {m}) + 1
    BY <1>11, <2>2, FS_AddElement DEF U
  <2> QED BY <1>11, <2>1, <2>2, <2>3 DEF U
\* An entry walked before does not need the slot just cleared.
<1>14. ASSUME NEW x \in HashUsed(h, w), HashDist(h, x, s) <= n + 1 PROVE HashReached(h, w, x)
  <2>1. CASE x = l
    <3>1. ASSUME NEW y \in HashSlot(h), HashDist(h, y, o) <= HashDist(h, l, o) PROVE w[y] # h.free
      <4>1. CASE y = l
        BY <1>3, <1>6, <4>1
      <4>2. CASE y # l
        <5>1. HashDist(h, y, o) < HashDist(h, l, o)
          BY <1>3, <1>5, <1>8, <3>1, <4>2, HashArc
        <5> QED BY <1>5, <1>6, <4>2, <5>1
      <4> QED BY <4>1, <4>2
    <3>2. HashHome(h, w[x]) = o
      BY <1>3, <1>6, <2>1
    <3> QED BY <2>1, <3>1, <3>2 DEF HashReached
  <2>2. CASE x # l
    <3> DEFINE p == HashHome(h, r[x])
    <3>1. x \in HashUsed(h, r) /\ x # m /\ w[x] = r[x] /\ x \in HashSlot(h) /\ p \in HashSlot(h)
      BY <1>1, <1>12, <2>2, HashHomeIn
    <3>2. HashDist(h, x, s) <= n
      <4>1. HashDist(h, x, s) # n + 1
        BY <1>1, <3>1, HashArc
      <4> QED BY <1>1, <1>8, <1>14, <3>1, <4>1
    <3>3. HashReached(h, r, x)
      BY <3>1, <3>2 DEF HashWalk
    <3>4. ~(HashDist(h, m, p) <= HashDist(h, x, p))
      <4> SUFFICES ASSUME HashDist(h, m, p) <= HashDist(h, x, p) PROVE FALSE
        OBVIOUS
      <4>1. PICK f \in HashSlot(h) : t[f] = h.free
        BY DEF HashWalk
      <4>2. HashDist(h, f, s) # 0 /\ HashDist(h, f, s) # n + 1
        BY <1>1, <1>2, <4>1, HashArc DEF HashUsed
      <4>3. ~(HashDist(h, f, s) \in 1 .. n)
        BY <4>1 DEF HashWalk
      <4>4. HashDist(h, f, s) > n + 1 /\ HashDist(h, f, s) > n
        BY <1>1, <1>8, <4>1, <4>2, <4>3
      <4>5. r[f] = h.free
        BY <4>1, <4>4 DEF HashWalk
      <4>6. HashDist(h, x, s) < HashDist(h, m, s)
        BY <1>1, <1>8, <3>1, <3>2
      <4>7. HashDist(h, f, p) <= HashDist(h, x, p)
        <5> HIDE DEF p
        <5> QED BY <1>1, <3>1, <4>1, <4>4, <4>6, HashPast
      <4> QED BY <3>3, <4>5, <4>7 DEF HashReached
    <3>5. ASSUME NEW y \in HashSlot(h), HashDist(h, y, p) <= HashDist(h, x, p) PROVE w[y] # h.free
      <4>1. y # m /\ r[y] # h.free
        BY <3>3, <3>4, <3>5 DEF HashReached
      <4> QED BY <1>3, <1>4, <1>6, <4>1
    <3> QED BY <3>1, <3>5 DEF HashReached
  <2> QED BY <2>1, <2>2
<1>15. ASSUME NEW x \in HashUsed(h, w), HashDist(h, x, s) > n + 1, NEW y \in HashSlot(h),
              HashDist(h, y, HashHome(h, w[x])) <= HashDist(h, x, HashHome(h, w[x])), w[y] = h.free
       PROVE  HashDist(h, y, s) <= n + 1
  <2>1. x # l
    BY <1>1, <1>5, <1>8, <1>10, <1>15
  <2>2. x \in HashUsed(h, r) /\ w[x] = r[x] /\ x \in HashSlot(h)
    BY <1>12, <2>1
  <2>3. HashDist(h, x, s) > n
    BY <1>1, <1>8, <1>15, <2>2
  <2>4. y = m \/ r[y] = h.free
    BY <1>3, <1>4, <1>6, <1>15
  <2>5. CASE y = m
    BY <1>1, <2>5
  <2>6. CASE r[y] = h.free
    <3>1. HashDist(h, y, s) <= n
      BY <1>15, <2>2, <2>3, <2>6 DEF HashWalk
    <3> QED BY <1>1, <1>8, <3>1
  <2> QED BY <2>4, <2>5, <2>6
<1>16. HashFrom(h, t, s, w)
  <2>1. ASSUME NEW x \in HashUsed(h, w) PROVE \E y \in HashUsed(h, t) \ {s} : w[x] \in {t[y], h.again[t[y]]}
    <3>1. CASE x = l
      BY <1>2, <1>6, <3>1 DEF v
    <3>2. CASE x # l
      BY <1>1, <1>12, <3>2 DEF HashFrom
    <3> QED BY <3>1, <3>2
  <2>2. ASSUME NEW y \in HashUsed(h, t) \ {s} PROVE \E x \in HashUsed(h, w) : w[x] \in {t[y], h.again[t[y]]}
    <3>1. PICK x \in HashUsed(h, r) : r[x] \in {t[y], h.again[t[y]]}
      BY <1>1 DEF HashFrom
    <3>2. CASE x = m
      <4>1. t[y] \in h.val
        BY <1>1, HashHomeIn
      <4>2. h.key[r[x]] = h.key[t[y]]
        BY <3>1, <4>1 DEF HashArgs
      <4>3. y = m
        BY <1>1, <1>2, <3>2, <4>2 DEF HashWell
      <4> QED BY <1>2, <1>6, <1>11, <4>3 DEF v
    <3>3. CASE x # m
      <4>1. x \in HashUsed(h, w) /\ x # l
        BY <1>11, <3>3
      <4> QED BY <1>12, <3>1, <4>1
    <3> QED BY <3>2, <3>3
  <2>3. ASSUME NEW x \in HashUsed(h, w), NEW y \in HashUsed(h, w), h.key[w[x]] = h.key[w[y]] PROVE x = y
    <3>1. \A z \in HashUsed(h, w) : h.key[w[z]] = k => z = l
      <4> SUFFICES ASSUME NEW z \in HashUsed(h, w), h.key[w[z]] = k, z # l PROVE FALSE
        OBVIOUS
      <4>1. z \in HashUsed(h, r) /\ z # m /\ h.key[r[z]] = k
        BY <1>12
      <4> QED BY <1>1, <1>2, <4>1 DEF HashFrom
    <3>2. CASE x = l \/ y = l
      BY <1>3, <1>6, <2>3, <3>1, <3>2
    <3>3. CASE x # l /\ y # l
      BY <1>1, <1>12, <2>3, <3>3 DEF HashFrom
    <3> QED BY <3>2, <3>3
  <2> QED BY <1>6, <1>13, <2>1, <2>2, <2>3 DEF HashFrom
<1>17. ASSUME NEW y \in HashSlot(h) PROVE (HashDist(h, y, s) \in 1 .. n + 1 => t[y] # h.free) /\ (HashDist(h, y, s) > n + 1 => w[y] = t[y])
  <2>1. CASE HashDist(h, y, s) = n + 1
    <3>1. y = m
      BY <1>1, <2>1, HashArc
    <3> QED BY <1>1, <1>2, <2>1, <3>1 DEF HashUsed
  <2>2. CASE HashDist(h, y, s) # n + 1
    <3>1. HashDist(h, y, s) \in 1 .. n + 1 => HashDist(h, y, s) \in 1 .. n
      BY <1>1, <1>8, <2>2
    <3>2. HashDist(h, y, s) > n + 1 => HashDist(h, y, s) > n /\ y # l /\ y # m
      BY <1>1, <1>5, <1>8, <1>10
    <3>3. HashDist(h, y, s) > n + 1 => w[y] = t[y]
      BY <1>4, <1>6, <3>2 DEF HashWalk
    <3> QED BY <3>1, <3>3 DEF HashWalk
  <2> QED BY <2>1, <2>2
<1>18. HashWalk(h, t, s, n + 1, w)
  <2>1. \E f \in HashSlot(h) : t[f] = h.free
    BY DEF HashWalk
  <2>2. n + 1 \in Nat
    BY <1>1
  <2> QED BY <1>1, <1>14, <1>15, <1>16, <1>17, <2>1, <2>2 DEF HashWalk
<1> QED BY <1>18 DEF w, r0

-----------------------------------------------------------------------------
(* The probe for a key, and the walk that removal makes.                   *)
HashProbe(h, t, k) ==
  LET At(n) == (h.home[k] + n) % h.n
      Ends == {n \in 0 .. h.n - 1 : t[At(n)] = h.free \/ h.key[t[At(n)]] = k}
  IN  IF Ends = {} THEN None ELSE At(CHOOSE n \in Ends : \A m \in Ends : n <= m)

\* The slot n after o is at distance n from it.
LEMMA HashAt ==
  ASSUME NEW h, HashArgs(h), NEW o \in HashSlot(h)
  PROVE  /\ \A n \in 0 .. h.n - 1 : (o + n) % h.n \in HashSlot(h) /\ HashDist(h, (o + n) % h.n, o) = n
         /\ \A x \in HashSlot(h) : (o + HashDist(h, x, o)) % h.n = x /\ HashDist(h, x, o) \in 0 .. h.n - 1
<1> DEFINE N == h.n
<1>1. N \in Nat \ {0} /\ o \in 0 .. N - 1
  BY DEF HashArgs, HashSlot
<1> HIDE DEF N
<1>2. ASSUME NEW n \in 0 .. N - 1 PROVE (o + n) % N = IF o + n < N THEN o + n ELSE o + n - N
  <2>1. CASE o + n < N
    BY <1>1, <2>1, SmallMod
  <2>2. CASE o + n >= N
    <3>1. o + n - N \in 0 .. N - 1 /\ o + n = N * 1 + (o + n - N)
      BY <1>1, <2>2
    <3>2. (N * 1 + (o + n - N)) % N = o + n - N
      BY <1>1, <3>1, ModUnique
    <3> QED BY <1>1, <2>2, <3>1, <3>2
  <2> QED BY <1>1, <2>1, <2>2
<1>3. ASSUME NEW n \in 0 .. N - 1 PROVE (o + n) % N \in HashSlot(h) /\ HashDist(h, (o + n) % N, o) = n
  <2> DEFINE x == (o + n) % N
  <2>1. x = IF o + n < N THEN o + n ELSE o + n - N
    BY <1>2
  <2> HIDE DEF x
  <2>2. x \in 0 .. N - 1
    BY <1>1, <2>1
  <2>3. x \in HashSlot(h)
    BY <2>2 DEF HashSlot, N
  <2>4. HashDist(h, x, o) = IF x >= o THEN x - o ELSE x - o + N
    BY <2>3, HashDistIs DEF N
  <2>5. HashDist(h, x, o) = n
    BY <1>1, <2>1, <2>2, <2>4
  <2> QED BY <2>3, <2>5 DEF x
<1>4. ASSUME NEW x \in HashSlot(h) PROVE (o + HashDist(h, x, o)) % N = x /\ HashDist(h, x, o) \in 0 .. N - 1
  <2> DEFINE d == HashDist(h, x, o)
  <2>1. d = (IF x >= o THEN x - o ELSE x - o + N) /\ d \in 0 .. N - 1 /\ x \in 0 .. N - 1
    BY HashDistIs DEF N, HashSlot
  <2> HIDE DEF d
  <2>2. (o + d) % N = IF o + d < N THEN o + d ELSE o + d - N
    BY <1>2, <2>1
  <2>3. (o + d) % N = x
    BY <1>1, <2>1, <2>2
  <2> QED BY <2>1, <2>3 DEF d
<1> QED BY <1>3, <1>4 DEF N

LEMMA HashProbeIs ==
  ASSUME NEW h, HashArgs(h), NEW t, NEW k \in h.keys, None \notin HashSlot(h)
  PROVE  /\ HashProbe(h, t, k) # None => HashEnd(h, t, k, HashProbe(h, t, k))
         /\ HashProbe(h, t, k) = None => \A x \in HashSlot(h) : t[x] # h.free /\ h.key[t[x]] # k
<1> DEFINE N == h.n
           o == h.home[k]
           At(n) == (o + n) % N
           Ends == {n \in 0 .. N - 1 : t[At(n)] = h.free \/ h.key[t[At(n)]] = k}
           least == CHOOSE n \in Ends : \A m \in Ends : n <= m
           p == HashProbe(h, t, k)
<1>1. N \in Nat \ {0} /\ o \in HashSlot(h)
  BY DEF HashArgs, HashSlot
<1>2. p = IF Ends = {} THEN None ELSE At(least)
  BY DEF HashProbe
<1>3. /\ \A n \in 0 .. N - 1 : At(n) \in HashSlot(h) /\ HashDist(h, At(n), o) = n
      /\ \A x \in HashSlot(h) : At(HashDist(h, x, o)) = x /\ HashDist(h, x, o) \in 0 .. N - 1
  BY <1>1, HashAt
<1>4. \A n \in 0 .. N - 1 : n \in Ends <=> (t[At(n)] = h.free \/ h.key[t[At(n)]] = k)
  OBVIOUS
<1>5. Ends \subseteq 0 .. N - 1 /\ Ends \subseteq Nat
  BY <1>1
<1> HIDE DEF N, o, At, Ends, p
<1>6. CASE Ends = {}
  <2>1. \A x \in HashSlot(h) : t[x] # h.free /\ h.key[t[x]] # k
    BY <1>3, <1>4, <1>6
  <2> QED BY <1>2, <1>6, <2>1 DEF p
<1>7. CASE Ends # {}
  <2>1. \E n \in Ends : \A m \in Ends : n <= m
    BY <1>5, <1>7, SmallestOf
  <2>2. least \in Ends /\ \A m \in Ends : least <= m
    BY <2>1
  <2> HIDE DEF least
  <2>3. p = At(least) /\ least \in 0 .. N - 1
    BY <1>2, <1>5, <1>7, <2>2
  <2>4. p \in HashSlot(h) /\ HashDist(h, p, o) = least /\ (t[p] = h.free \/ h.key[t[p]] = k)
    BY <1>3, <1>4, <2>2, <2>3
  <2>5. ASSUME NEW y \in HashSlot(h), HashDist(h, y, o) < HashDist(h, p, o) PROVE t[y] # h.free /\ h.key[t[y]] # k
    <3>1. HashDist(h, y, o) \in 0 .. N - 1 /\ At(HashDist(h, y, o)) = y
      BY <1>3
    <3>2. HashDist(h, y, o) \notin Ends
      BY <1>5, <2>2, <2>4, <2>5, <3>1
    <3> QED BY <1>4, <3>1, <3>2
  <2>6. HashEnd(h, t, k, p)
    BY <2>4, <2>5 DEF HashEnd, o
  <2>7. p # None
    BY <2>4
  <2> QED BY <2>6, <2>7 DEF p
<1> QED BY <1>6, <1>7

LEMMA HashProbeAt ==
  ASSUME NEW h, HashArgs(h), NEW t, NEW k \in h.keys, None \notin HashSlot(h), NEW x, HashEnd(h, t, k, x)
  PROVE  HashProbe(h, t, k) = x
<1>1. x \in HashSlot(h) /\ (t[x] = h.free \/ h.key[t[x]] = k)
  BY DEF HashEnd
<1>2. HashEnd(h, t, k, HashProbe(h, t, k))
  BY <1>1, HashProbeIs
<1> QED BY <1>2, HashEndOnly

\* An entry is found by the probe for its key, and only there.
LEMMA HashProbeFinds ==
  ASSUME NEW h, HashArgs(h), NEW t, HashWell(h, t), NEW k \in h.keys, None \notin HashSlot(h)
  PROVE  /\ \A x \in HashUsed(h, t) : h.key[t[x]] = k => HashProbe(h, t, k) = x
         /\ HashProbe(h, t, k) # None /\ t[HashProbe(h, t, k)] # h.free =>
              HashProbe(h, t, k) \in HashUsed(h, t) /\ h.key[t[HashProbe(h, t, k)]] = k
<1>1. ASSUME NEW x \in HashUsed(h, t), h.key[t[x]] = k PROVE HashProbe(h, t, k) = x
  <2>1. HashEnd(h, t, h.key[t[x]], x)
    BY HashFound
  <2> QED BY <1>1, <2>1, HashProbeAt
<1>2. ASSUME HashProbe(h, t, k) # None, t[HashProbe(h, t, k)] # h.free
      PROVE  HashProbe(h, t, k) \in HashUsed(h, t) /\ h.key[t[HashProbe(h, t, k)]] = k
  <2>1. HashEnd(h, t, k, HashProbe(h, t, k))
    BY <1>2, HashProbeIs
  <2> QED BY <1>2, <2>1 DEF HashEnd, HashUsed
<1> QED BY <1>1, <1>2

-----------------------------------------------------------------------------
\* One step of a removal: the entry at slot m is taken out and put in again where
\* its probe ends, or the walk has met a free slot.
HashStep(h, was, m) ==
  IF was.done \/ was.tab[m] = h.free THEN [was EXCEPT !.done = TRUE]
  ELSE [was EXCEPT !.tab =
          [[was.tab EXCEPT ![m] = h.free] EXCEPT
             ![HashProbe(h, [was.tab EXCEPT ![m] = h.free], h.key[was.tab[m]])] = h.again[was.tab[m]]]]
HashOk(h, t, s, n, was) ==
  /\ was \in [tab : HashTable(h), done : BOOLEAN]
  /\ IF was.done THEN HashRest(h, t, s, was.tab) ELSE HashWalk(h, t, s, n, was.tab)

LEMMA HashStepOk ==
  ASSUME NEW h, HashArgs(h), None \notin HashSlot(h), NEW t, NEW s, NEW n, NEW was,
         HashOk(h, t, s, n, was), s \in HashSlot(h), n \in Nat, n + 1 < h.n
  PROVE  HashOk(h, t, s, n + 1, HashStep(h, was, (s + (n + 1)) % h.n))
<1> DEFINE m == (s + (n + 1)) % h.n
           v == HashStep(h, was, m)
           r == was.tab
<1>1. was \in [tab : HashTable(h), done : BOOLEAN] /\ h.n \in Nat
  BY DEF HashOk, HashArgs
<1>2. m \in HashSlot(h) /\ HashDist(h, m, s) = n + 1
  <2>1. n + 1 \in 0 .. h.n - 1
    BY <1>1
  <2> QED BY <2>1, HashAt
<1> HIDE DEF m
<1>3. r \in HashTable(h) /\ was.done \in BOOLEAN
  BY <1>1
<1>4. CASE was.done
  <2>1. v = [was EXCEPT !.done = TRUE]
    BY <1>4 DEF HashStep
  <2>2. v.tab = r /\ v.done = TRUE /\ v \in [tab : HashTable(h), done : BOOLEAN]
    BY <1>1, <2>1
  <2>3. HashRest(h, t, s, r)
    BY <1>4 DEF HashOk
  <2> HIDE DEF v, r
  <2>4. HashOk(h, t, s, n + 1, v)
    BY <2>2, <2>3 DEF HashOk
  <2> QED BY <2>4 DEF v, m
<1>5. CASE ~was.done /\ r[m] = h.free
  <2>1. v = [was EXCEPT !.done = TRUE]
    BY <1>5 DEF HashStep
  <2>2. v.tab = r /\ v.done = TRUE /\ v \in [tab : HashTable(h), done : BOOLEAN]
    BY <1>1, <2>1
  <2>3. HashWalk(h, t, s, n, r)
    BY <1>5 DEF HashOk
  <2>4. HashRest(h, t, s, r)
    BY <1>2, <1>5, <2>3, HashWalkDone
  <2> HIDE DEF v, r
  <2>5. HashOk(h, t, s, n + 1, v)
    BY <2>2, <2>4 DEF HashOk
  <2> QED BY <2>5 DEF v, m
<1>6. CASE ~was.done /\ r[m] # h.free
  <2> DEFINE r0 == [r EXCEPT ![m] = h.free]
             l == HashProbe(h, r0, h.key[r[m]])
             w == [r0 EXCEPT ![l] = h.again[r[m]]]
  <2>1. v = [was EXCEPT !.tab = w]
    BY <1>6 DEF HashStep
  <2>2. HashWalk(h, t, s, n, r)
    BY <1>6 DEF HashOk
  <2>3. r[m] \in h.val /\ h.key[r[m]] \in h.keys
    BY <1>2, <1>3, <1>6 DEF HashTable, HashArgs
  <2>4. r0[m] = h.free
    BY <1>2, <1>3 DEF HashTable
  <2>5. HashEnd(h, r0, h.key[r[m]], l)
    <3> HIDE DEF r0
    <3>1. l # None
      BY <1>2, <2>3, <2>4, HashProbeIs
    <3> QED BY <2>3, <3>1, HashProbeIs
  <2> HIDE DEF l
  <2>6. HashWalk(h, t, s, n + 1, w)
    <3> HIDE DEF r
    <3> QED BY <1>2, <1>6, <2>2, <2>5, HashWalkOn
  <2> HIDE DEF w
  <2>7. w \in HashTable(h)
    BY <2>6 DEF HashWalk, HashFrom
  <2>8. v.tab = w /\ v.done = FALSE /\ v \in [tab : HashTable(h), done : BOOLEAN]
    BY <1>1, <1>6, <2>1, <2>7
  <2> HIDE DEF v
  <2>9. HashOk(h, t, s, n + 1, v)
    BY <2>6, <2>8 DEF HashOk
  <2> QED BY <2>9 DEF v, m
<1> QED BY <1>3, <1>4, <1>5, <1>6

\* So a walk round the table leaves a table without the entry at s.
LEMMA HashRun ==
  ASSUME NEW h, HashArgs(h), None \notin HashSlot(h), NEW t, HashWell(h, t), NEW s \in HashUsed(h, t),
         NEW f \in HashSlot(h), t[f] = h.free,
         NEW W, W[0] = [tab |-> [t EXCEPT ![s] = h.free], done |-> FALSE],
         \A n \in 1 .. h.n - 1 :
           HashOk(h, t, s, n - 1, W[n - 1]) => W[n] = HashStep(h, W[n - 1], (s + n) % h.n)
  PROVE  HashRest(h, t, s, W[h.n - 1].tab)
<1> DEFINE M == h.n - 1
           S == {n \in 0 .. M : HashOk(h, t, s, n, W[n])}
<1>1. h.n \in Nat \ {0} /\ M \in Nat /\ s \in HashSlot(h)
  BY DEF HashArgs, HashUsed
<1>2. 0 \in S
  <2> DEFINE a == [tab |-> [t EXCEPT ![s] = h.free], done |-> FALSE]
             r == [t EXCEPT ![s] = h.free]
  <2>1. HashWalk(h, t, s, 0, r)
    BY HashWalkStarts
  <2> HIDE DEF r
  <2>2. r \in HashTable(h)
    BY <2>1 DEF HashWalk, HashFrom
  <2>3. a.tab = r /\ a.done = FALSE /\ a \in [tab : HashTable(h), done : BOOLEAN]
    BY <2>2 DEF r
  <2> HIDE DEF a
  <2>4. HashOk(h, t, s, 0, a)
    BY <2>1, <2>3 DEF HashOk
  <2>5. HashOk(h, t, s, 0, W[0])
    BY <2>4 DEF a
  <2> QED BY <1>1, <2>5
<1>3. ASSUME NEW n \in Nat, n \in S, n < M PROVE n + 1 \in S
  <2>1. n + 1 \in 1 .. M /\ n + 1 - 1 = n /\ n + 1 < h.n
    BY <1>1, <1>3
  <2>2. HashOk(h, t, s, n, W[n])
    BY <1>3
  <2>3. W[n + 1] = HashStep(h, W[n], (s + (n + 1)) % h.n)
    BY <2>1, <2>2
  <2>4. HashOk(h, t, s, n + 1, W[n + 1])
    BY <1>1, <2>1, <2>2, <2>3, HashStepOk
  <2> QED BY <2>1, <2>4
<1>4. M \in S
  <2> HIDE DEF S, M
  <2>1. \A n \in 0 .. M : n \in S
    BY <1>1, <1>2, <1>3, Inducts
  <2> QED BY <1>1, <2>1
<1>5. HashOk(h, t, s, M, W[M])
  BY <1>4
<1>6. ~HashWalk(h, t, s, M, W[M].tab)
  BY HashWalkEnds
<1> HIDE DEF M
<1>7. HashRest(h, t, s, W[M].tab)
  BY <1>5, <1>6 DEF HashOk
<1> QED BY <1>7 DEF M

-----------------------------------------------------------------------------
(* The neighbour table.                                                    *)
ArpReadd(e) == [ip |-> e.ip, mac |-> e.mac, state |-> "reachable", probes |-> 0, age |-> 0]
ArpHash ==
  [n |-> ArpN, free |-> ArpFree, val |-> ArpEntry, keys |-> ArpAddr, key |-> [e \in ArpEntry |-> e.ip],
   home |-> ArpHome, again |-> [e \in ArpEntry |-> ArpReadd(e)]]
ArpTable == [ArpSlot -> ArpEntry \cup {ArpFree}]

LEMMA ArpEntryIs ==
  ASSUME NEW ip \in ArpAddr, NEW mac \in Mac \cup {Null}, NEW st \in {"incomplete", "reachable"},
         NEW p \in 0 .. MaxProbes, NEW a \in 0 .. Dead
  PROVE  [ip |-> ip, mac |-> mac, state |-> st, probes |-> p, age |-> a] \in ArpEntry
BY DEF ArpEntry

LEMMA ArpEntryHas ==
  ASSUME NEW e \in ArpEntry
  PROVE  /\ e.ip \in ArpAddr /\ e.mac \in Mac \cup {Null} /\ e.state \in {"incomplete", "reachable"}
         /\ e.probes \in 0 .. MaxProbes /\ e.age \in 0 .. Dead /\ e # ArpFree
BY ArpAssumption DEF ArpEntry

LEMMA ArpHashIs ==
  /\ HashArgs(ArpHash) /\ HashSlot(ArpHash) = ArpSlot /\ HashTable(ArpHash) = ArpTable
  /\ ArpHash.n = ArpN /\ ArpHash.free = ArpFree /\ ArpHash.val = ArpEntry /\ ArpHash.keys = ArpAddr
  /\ ArpHash.home = ArpHome
  /\ \A e \in ArpEntry : ArpHash.key[e] = e.ip /\ ArpHash.again[e] = ArpReadd(e)
  /\ \A t : HashUsed(ArpHash, t) = ArpUsed(t)
  /\ None \notin HashSlot(ArpHash)
<1>1. /\ ArpHash.n = ArpN /\ ArpHash.free = ArpFree /\ ArpHash.val = ArpEntry /\ ArpHash.keys = ArpAddr
      /\ ArpHash.home = ArpHome /\ ArpHash.key = [e \in ArpEntry |-> e.ip]
      /\ ArpHash.again = [e \in ArpEntry |-> ArpReadd(e)]
  BY DEF ArpHash
<1>2. ASSUME NEW e \in ArpEntry PROVE e.ip \in ArpAddr /\ ArpReadd(e) \in ArpEntry /\ ArpReadd(e).ip = e.ip
  <2>1. e.ip \in ArpAddr /\ e.mac \in Mac \cup {Null}
    BY ArpEntryHas
  <2>2. 0 \in 0 .. MaxProbes /\ 0 \in 0 .. Dead
    BY ArpAssumption
  <2>3. ArpReadd(e) \in ArpEntry
    BY <2>1, <2>2, ArpEntryIs DEF ArpReadd
  <2> QED BY <2>1, <2>3 DEF ArpReadd
<1>3. \A e \in ArpEntry : ArpHash.key[e] = e.ip /\ ArpHash.again[e] = ArpReadd(e)
  BY <1>1
<1>4. HashSlot(ArpHash) = ArpSlot
  BY <1>1 DEF HashSlot, ArpSlot
<1>5. HashArgs(ArpHash)
  <2>1. ArpHash.key \in [ArpEntry -> ArpAddr]
    BY <1>1, <1>2
  <2>2. ArpHash.again \in [ArpEntry -> ArpEntry]
    BY <1>1, <1>2
  <2>3. \A v \in ArpEntry : ArpHash.key[ArpHash.again[v]] = ArpHash.key[v]
    BY <1>2, <1>3
  <2>4. ArpHash.home \in [ArpAddr -> 0 .. ArpN - 1]
    BY <1>1, ArpAssumption DEF ArpSlot
  <2>5. ArpN \in Nat \ {0} /\ ArpFree \notin ArpEntry
    BY ArpAssumption
  <2> QED BY <1>1, <2>1, <2>2, <2>3, <2>4, <2>5 DEF HashArgs
<1>6. HashTable(ArpHash) = ArpTable
  BY <1>1, <1>4 DEF HashTable, ArpTable
<1>7. \A t : HashUsed(ArpHash, t) = ArpUsed(t)
  BY <1>1, <1>4 DEF HashUsed, ArpUsed
<1> QED BY <1>1, <1>3, <1>4, <1>5, <1>6, <1>7, ArpAssumption

LEMMA NeighSlotIs ==
  ASSUME NEW t \in ArpTable, NEW ip \in ArpAddr
  PROVE  NeighSlot(t, ip) = HashProbe(ArpHash, t, ip)
<1> DEFINE At(n) == (ArpHome[ip] + n) % ArpN
           EA == {n \in 0 .. ArpN - 1 : t[At(n)] = ArpFree \/ t[At(n)].ip = ip}
           EH == {n \in 0 .. ArpN - 1 : t[At(n)] = ArpFree \/ ArpHash.key[t[At(n)]] = ip}
<1>1. \A n \in 0 .. ArpN - 1 : At(n) \in ArpSlot
  <2>1. HashArgs(ArpHash) /\ ArpHome[ip] \in HashSlot(ArpHash) /\ ArpHash.n = ArpN /\ HashSlot(ArpHash) = ArpSlot
    BY ArpHashIs, ArpAssumption
  <2> QED BY <2>1, HashAt
<1>2. \A n \in 0 .. ArpN - 1 : t[At(n)] = ArpFree \/ ArpHash.key[t[At(n)]] = t[At(n)].ip
  BY <1>1, ArpHashIs DEF ArpTable
<1>3. EA = EH
  BY <1>2
<1>4. ArpHash.home = ArpHome /\ ArpHash.n = ArpN /\ ArpHash.free = ArpFree
  BY ArpHashIs
<1>5. HashProbe(ArpHash, t, ip) = IF EH = {} THEN None ELSE At(CHOOSE n \in EH : \A m \in EH : n <= m)
  BY <1>4 DEF HashProbe
<1>6. NeighSlot(t, ip) = IF EA = {} THEN None ELSE At(CHOOSE n \in EA : \A m \in EA : n <= m)
  BY DEF NeighSlot
<1> HIDE DEF EA, EH, At
<1> QED BY <1>3, <1>5, <1>6

LEMMA NeighSlotAt ==
  ASSUME NEW t \in ArpTable, NEW ip \in ArpAddr, NeighSlot(t, ip) # None
  PROVE  /\ NeighSlot(t, ip) \in ArpSlot /\ HashEnd(ArpHash, t, ip, NeighSlot(t, ip))
         /\ t[NeighSlot(t, ip)] = ArpFree \/ (t[NeighSlot(t, ip)] \in ArpEntry /\ t[NeighSlot(t, ip)].ip = ip)
<1> DEFINE s == NeighSlot(t, ip)
<1>1. s = HashProbe(ArpHash, t, ip)
  BY NeighSlotIs
<1>2. HashEnd(ArpHash, t, ip, s)
  <2>1. HashArgs(ArpHash) /\ ip \in ArpHash.keys /\ None \notin HashSlot(ArpHash)
    BY ArpHashIs
  <2> QED BY <1>1, <2>1, HashProbeIs
<1> HIDE DEF s
<1>3. s \in ArpSlot /\ (t[s] = ArpFree \/ ArpHash.key[t[s]] = ip)
  BY <1>2, ArpHashIs DEF HashEnd
<1>4. t[s] = ArpFree \/ t[s] \in ArpEntry
  BY <1>3 DEF ArpTable
<1>5. t[s] = ArpFree \/ (t[s] \in ArpEntry /\ t[s].ip = ip)
  BY <1>3, <1>4, ArpHashIs
<1> QED BY <1>2, <1>3, <1>5 DEF s

LEMMA AddTable ==
  ASSUME NEW t \in ArpTable, NEW ip \in ArpAddr, NEW mac \in Mac \cup {Null}
  PROVE  Add(t, ip, mac) \in ArpTable
<1> DEFINE s == NeighSlot(t, ip)
           old == IF t[s] = ArpFree THEN 0 ELSE t[s].age
           e == [ip |-> ip, mac |-> mac, state |-> "reachable", probes |-> 0, age |-> old]
<1>1. Add(t, ip, mac) = IF ~Room(t, ip) THEN t ELSE [t EXCEPT ![s] = e]
  BY DEF Add
<1>2. CASE ~Room(t, ip)
  BY <1>1, <1>2
<1>3. CASE Room(t, ip)
  <2>1. s # None
    BY <1>3 DEF Room
  <2>2. s \in ArpSlot /\ (t[s] = ArpFree \/ t[s] \in ArpEntry)
    BY <2>1, NeighSlotAt
  <2>3. old \in 0 .. Dead
    BY <2>2, ArpEntryHas, ArpAssumption
  <2>4. e \in ArpEntry
    <3> HIDE DEF old
    <3>1. 0 \in 0 .. MaxProbes
      BY ArpAssumption
    <3> QED BY <2>3, <3>1, ArpEntryIs
  <2> HIDE DEF e, s
  <2> QED BY <1>1, <1>3, <2>2, <2>4 DEF ArpTable
<1> QED BY <1>2, <1>3

-----------------------------------------------------------------------------
\* The table a next state starts from: entries found, a quarter of the slots free.
ArpWell(t) == HashWell(ArpHash, t) /\ Cardinality(ArpUsed(t)) <= (3 * ArpN) \div 4

LEMMA ArpLoad ==
  /\ (3 * ArpN) \div 4 \in Nat /\ (3 * ArpN) \div 4 < ArpN
  /\ \A t : Cardinality(ArpUsed(t)) \in Nat /\ IsFiniteSet(ArpUsed(t))
<1>1. ArpN \in Nat \ {0}
  BY ArpAssumption
<1>2. (3 * ArpN) \div 4 \in Nat /\ (3 * ArpN) \div 4 < ArpN
  BY <1>1
<1>3. \A t : HashUsed(ArpHash, t) = ArpUsed(t) /\ HashArgs(ArpHash)
  BY ArpHashIs
<1>4. \A t : Cardinality(ArpUsed(t)) \in Nat /\ IsFiniteSet(ArpUsed(t))
  BY <1>3, HashFinite
<1> QED BY <1>2, <1>4

LEMMA ArpFreeSlot ==
  ASSUME NEW t, ArpWell(t)
  PROVE  \E f \in ArpSlot : t[f] = ArpFree
<1> SUFFICES ASSUME \A f \in ArpSlot : t[f] # ArpFree PROVE FALSE
  OBVIOUS
<1>1. ArpUsed(t) = 0 .. ArpN - 1
  BY DEF ArpUsed, ArpSlot
<1>2. 0 \in Int /\ ArpN - 1 \in Int /\ ArpN \in Nat \ {0}
  BY ArpAssumption
<1>3. Cardinality(0 .. ArpN - 1) = ArpN
  <2>1. Cardinality(0 .. ArpN - 1) = IF 0 > ArpN - 1 THEN 0 ELSE ArpN - 1 - 0 + 1
    BY <1>2, FS_Interval
  <2> QED BY <1>2, <2>1
<1> QED BY <1>1, <1>2, <1>3, ArpLoad DEF ArpWell

\* An entry taken out for a while finds room again, with nothing remembered.
LEMMA ArpAgainIs ==
  ASSUME NEW t, ArpWell(t), NEW s \in ArpUsed(t), NEW n \in Nat, NEW was, NEW m \in ArpSlot,
         HashOk(ArpHash, t, s, n, was), HashDist(ArpHash, m, s) = n + 1, n + 1 < ArpN
  PROVE  ArpAgain(was, m) = HashStep(ArpHash, was, m)
<1> DEFINE r == was.tab
           e == r[m]
           r0 == [r EXCEPT ![m] = ArpFree]
           l == HashProbe(ArpHash, r0, e.ip)
<1>1. r \in ArpTable /\ (~was.done => HashWalk(ArpHash, t, s, n, r))
  BY ArpHashIs DEF HashOk
<1>2. CASE was.done \/ e = ArpFree
  BY <1>2, ArpHashIs DEF ArpAgain, HashStep
<1>3. CASE ~was.done /\ e # ArpFree
  <2>1. HashWalk(ArpHash, t, s, n, r) /\ HashFrom(ArpHash, t, s, r)
    BY <1>1, <1>3 DEF HashWalk
  <2>2. /\ Cardinality(ArpUsed(r)) = Cardinality(ArpUsed(t)) - 1
        /\ \A x, y \in ArpUsed(r) : ArpHash.key[r[x]] = ArpHash.key[r[y]] => x = y
    BY <2>1, ArpHashIs DEF HashFrom
  <2>3. e \in ArpEntry /\ e.ip \in ArpAddr /\ e.mac \in Mac \cup {Null} /\ m \in ArpUsed(r)
    BY <1>1, <1>3, ArpEntryHas DEF ArpTable, ArpUsed
  <2>4. r0 \in ArpTable /\ r0[m] = ArpFree /\ \A x \in ArpSlot : x # m => r0[x] = r[x]
    BY <1>1 DEF ArpTable
  <2>5. Add(r0, e.ip, e.mac) = [r0 EXCEPT ![l] = ArpReadd(e)]
    <3> HIDE DEF r0, e
    <3>1. NeighSlot(r0, e.ip) = l
      BY <2>3, <2>4, NeighSlotIs
    <3>2. l # None
      <4>1. HashArgs(ArpHash) /\ e.ip \in ArpHash.keys /\ None \notin HashSlot(ArpHash)
        BY <2>3, ArpHashIs
      <4>2. l = None => \A x \in ArpSlot : r0[x] # ArpFree
        BY <4>1, ArpHashIs, HashProbeIs
      <4> QED BY <2>4, <4>2
    <3>3. l \in ArpSlot /\ (r0[l] = ArpFree \/ (r0[l] \in ArpEntry /\ r0[l].ip = e.ip))
      BY <2>3, <2>4, <3>1, <3>2, NeighSlotAt
    <3>4. r0[l] = ArpFree
      <4> SUFFICES ASSUME r0[l] # ArpFree PROVE FALSE
        OBVIOUS
      <4>1. l # m /\ r[l] = r0[l] /\ l \in ArpUsed(r) /\ r[l].ip = e.ip /\ r[l] \in ArpEntry
        BY <2>4, <3>3 DEF ArpUsed
      <4>2. ArpHash.key[r[l]] = ArpHash.key[r[m]]
        BY <2>3, <4>1, ArpHashIs DEF e
      <4> QED BY <2>2, <2>3, <4>1, <4>2
    <3>5. Cardinality(ArpUsed(r0)) + 1 <= (3 * ArpN) \div 4
      <4>1. ArpUsed(r0) = ArpUsed(r) \ {m}
        BY <2>4 DEF ArpUsed
      <4>2. Cardinality(ArpUsed(r0)) = Cardinality(ArpUsed(r)) - 1
        <5>1. IsFiniteSet(ArpUsed(r)) /\ m \in ArpUsed(r)
          BY <2>3, ArpLoad
        <5>2. Cardinality(ArpUsed(r) \ {m}) = Cardinality(ArpUsed(r)) - 1
          BY <5>1, FS_RemoveElement
        <5> QED BY <4>1, <5>2
      <4>3. Cardinality(ArpUsed(t)) <= (3 * ArpN) \div 4
        BY DEF ArpWell
      <4>4. /\ Cardinality(ArpUsed(t)) \in Nat /\ Cardinality(ArpUsed(r)) \in Nat
            /\ Cardinality(ArpUsed(r0)) \in Nat /\ (3 * ArpN) \div 4 \in Nat
        BY ArpLoad
      <4> QED BY <2>2, <4>2, <4>3, <4>4
    <3>6. Room(r0, e.ip)
      BY <3>1, <3>2, <3>5 DEF Room
    <3> HIDE DEF l
    <3> QED BY <3>1, <3>4, <3>6 DEF Add, ArpReadd
  <2>6. ArpAgain(was, m) = [was EXCEPT !.tab = Add(r0, e.ip, e.mac)]
    BY <1>3 DEF ArpAgain
  <2>7. /\ ArpHash.key[r[m]] = e.ip /\ ArpHash.again[r[m]] = ArpReadd(e) /\ ArpHash.free = ArpFree
    BY <2>3, ArpHashIs
  <2>8. HashStep(ArpHash, was, m) = [was EXCEPT !.tab = [r0 EXCEPT ![l] = ArpReadd(e)]]
    BY <1>3, <2>7 DEF HashStep
  <2> QED BY <2>5, <2>6, <2>8
<1> QED BY <1>2, <1>3

ArpRun(t, s) ==
  CHOOSE g : g = [n \in 0 .. ArpN - 1 |->
    IF n = 0 THEN [tab |-> [t EXCEPT ![s] = ArpFree], done |-> FALSE]
    ELSE ArpThe({ArpAgain(was, (s + n) % ArpN) : was \in {g[n - 1]}})]

LEMMA ArpRunSteps ==
  ASSUME NEW t \in ArpTable, NEW s \in ArpSlot
  PROVE  /\ ArpRun(t, s)[0] = [tab |-> [t EXCEPT ![s] = ArpFree], done |-> FALSE]
         /\ \A n \in 1 .. ArpN - 1 : ArpRun(t, s)[n] = ArpAgain(ArpRun(t, s)[n - 1], (s + n) % ArpN)
<1> DEFINE M == ArpN - 1
           St == [tab : ArpTable, done : BOOLEAN]
           a == [tab |-> [t EXCEPT ![s] = ArpFree], done |-> FALSE]
           H == [n \in 1 .. M |-> [w \in St |-> ArpAgain(w, (s + n) % ArpN)]]
           Is(g) == g = [n \in 0 .. M |-> IF n = 0 THEN a
                                          ELSE ArpThe({ArpAgain(w, (s + n) % ArpN) : w \in {g[n - 1]}})]
<1>1. M \in Nat /\ ArpN \in Nat /\ s \in Nat
  BY ArpAssumption DEF ArpSlot
<1>2. a \in St
  <2>1. [t EXCEPT ![s] = ArpFree] \in ArpTable
    BY DEF ArpTable
  <2> QED BY <2>1
<1>3. ASSUME NEW w \in St, NEW m \in ArpSlot PROVE ArpAgain(w, m) \in St
  <2> DEFINE r == w.tab
             r0 == [r EXCEPT ![m] = ArpFree]
  <2>1. r \in ArpTable /\ w.done \in BOOLEAN
    OBVIOUS
  <2>2. r0 \in ArpTable
    BY <2>1 DEF ArpTable
  <2>3. CASE w.done \/ r[m] = ArpFree
    BY <2>1, <2>3 DEF ArpAgain
  <2>4. CASE ~(w.done \/ r[m] = ArpFree)
    <3>1. r[m] \in ArpEntry
      BY <2>1, <2>4 DEF ArpTable
    <3> HIDE DEF r0
    <3>2. Add(r0, r[m].ip, r[m].mac) \in ArpTable
      BY <2>2, <3>1, ArpEntryHas, AddTable
    <3>3. ArpAgain(w, m) = [w EXCEPT !.tab = Add(r0, r[m].ip, r[m].mac)]
      BY <2>4 DEF ArpAgain, r0
    <3> QED BY <3>2, <3>3
  <2> QED BY <2>3, <2>4
<1>4. \A n \in 1 .. M : (s + n) % ArpN \in ArpSlot
  <2>1. HashArgs(ArpHash) /\ s \in HashSlot(ArpHash) /\ ArpHash.n = ArpN /\ HashSlot(ArpHash) = ArpSlot
    BY ArpHashIs
  <2>2. \A n \in 0 .. ArpN - 1 : (s + n) % ArpN \in ArpSlot
    BY <2>1, HashAt
  <2>3. \A n \in 1 .. M : n \in 0 .. ArpN - 1
    BY <1>1
  <2> QED BY <2>2, <2>3
<1> HIDE DEF a, St, M
<1>5. H \in [1 .. M -> [St -> St]] /\ \A n \in 1 .. M : \A w \in St : H[n][w] = ArpAgain(w, (s + n) % ArpN)
  <2>1. \A n \in 1 .. M : [w \in St |-> ArpAgain(w, (s + n) % ArpN)] \in [St -> St]
    BY <1>3, <1>4
  <2> QED BY <2>1
<1> HIDE DEF H
<1>6. PICK f \in StepRuns(St, a, M, H) : TRUE
  BY <1>1, <1>2, <1>5, StepsExist
<1>7. f \in [0 .. M -> St] /\ f[0] = a /\ \A n \in 1 .. M : f[n] = H[n][f[n - 1]]
  BY ONLY <1>6 DEF StepRuns
<1>8. \A w, m : ArpThe({ArpAgain(v, m) : v \in {w}}) = ArpAgain(w, m)
  BY DEF ArpThe
<1>9. ASSUME NEW n \in 0 .. M
      PROVE f[n] = IF n = 0 THEN a ELSE ArpThe({ArpAgain(w, (s + n) % ArpN) : w \in {f[n - 1]}})
  <2>1. CASE n = 0
    BY <1>7, <2>1
  <2>2. CASE n # 0
    <3>1. n \in 1 .. M /\ n - 1 \in 0 .. M
      BY <1>1, <2>2
    <3>2. f[n] = ArpAgain(f[n - 1], (s + n) % ArpN)
      BY <1>5, <1>7, <3>1
    <3> QED BY <1>8, <2>2, <3>2
  <2> QED BY <2>1, <2>2
<1>10. Is(f)
  BY <1>7, <1>9
<1> DEFINE W == ArpRun(t, s)
<1>11. W = CHOOSE g : Is(g)
  BY DEF ArpRun, M, a
<1>12. Is(W)
  <2> HIDE DEF Is, W
  <2> QED BY <1>10, <1>11
<1> HIDE DEF W
<1>13. \A n \in 0 .. M : W[n] = IF n = 0 THEN a ELSE ArpThe({ArpAgain(w, (s + n) % ArpN) : w \in {W[n - 1]}})
  BY <1>12
<1>14. W[0] = a
  <2>1. 0 \in 0 .. M
    BY <1>1
  <2>2. W[0] = IF 0 = 0 THEN a ELSE ArpThe({ArpAgain(w, (s + 0) % ArpN) : w \in {W[0 - 1]}})
    BY <1>13, <2>1
  <2> QED BY <2>2
<1>15. ASSUME NEW n \in 1 .. M PROVE W[n] = ArpAgain(W[n - 1], (s + n) % ArpN)
  <2>1. n \in 0 .. M /\ n # 0
    BY <1>1
  <2> QED BY <1>8, <1>13, <2>1
<1> QED BY <1>14, <1>15 DEF M, a, W

LEMMA DelWell ==
  ASSUME NEW t, ArpWell(t), NEW s \in ArpUsed(t)
  PROVE  ArpWell(Del(t, s))
<1> DEFINE W == ArpRun(t, s)
<1>1. t \in ArpTable /\ s \in ArpSlot /\ HashWell(ArpHash, t) /\ s \in HashUsed(ArpHash, t)
  BY ArpHashIs DEF ArpWell, HashWell, ArpUsed
<1>2. Del(t, s) = W[ArpN - 1].tab
  BY DEF Del, ArpRun
<1>3. W[0] = [tab |-> [t EXCEPT ![s] = ArpFree], done |-> FALSE]
  BY <1>1, ArpRunSteps
<1>4. \A n \in 1 .. ArpN - 1 : W[n] = ArpAgain(W[n - 1], (s + n) % ArpN)
  BY <1>1, ArpRunSteps
<1> HIDE DEF W
<1>5. PICK f \in ArpSlot : t[f] = ArpFree
  BY ArpFreeSlot
<1>6. ASSUME NEW n \in 1 .. ArpN - 1, HashOk(ArpHash, t, s, n - 1, W[n - 1])
      PROVE  W[n] = HashStep(ArpHash, W[n - 1], (s + n) % ArpN)
  <2>1. ArpN \in Nat /\ n \in 0 .. ArpN - 1 /\ n - 1 \in Nat /\ n - 1 + 1 = n /\ n - 1 + 1 < ArpN
    BY ArpAssumption
  <2>2. (s + n) % ArpN \in ArpSlot /\ HashDist(ArpHash, (s + n) % ArpN, s) = n - 1 + 1
    <3>1. HashArgs(ArpHash) /\ s \in HashSlot(ArpHash) /\ ArpHash.n = ArpN /\ HashSlot(ArpHash) = ArpSlot
      BY <1>1, ArpHashIs
    <3> QED BY <2>1, <3>1, HashAt
  <2> DEFINE m == (s + n) % ArpN
             q == n - 1
  <2>3. q \in Nat /\ q + 1 < ArpN /\ m \in ArpSlot /\ HashDist(ArpHash, m, s) = q + 1 /\ HashOk(ArpHash, t, s, q, W[q])
    BY <1>6, <2>1, <2>2
  <2> HIDE DEF m, q
  <2>4. ArpAgain(W[q], m) = HashStep(ArpHash, W[q], m)
    BY <2>3, ArpAgainIs
  <2> QED BY <1>4, <2>4 DEF m, q
<1>7. HashRest(ArpHash, t, s, W[ArpN - 1].tab)
  <2>1. HashArgs(ArpHash) /\ None \notin HashSlot(ArpHash) /\ f \in HashSlot(ArpHash) /\ t[f] = ArpHash.free /\ ArpHash.n = ArpN
    BY <1>5, ArpHashIs
  <2>2. W[0] = [tab |-> [t EXCEPT ![s] = ArpHash.free], done |-> FALSE]
    BY <1>3, ArpHashIs
  <2>3. \A n \in 1 .. ArpHash.n - 1 :
          HashOk(ArpHash, t, s, n - 1, W[n - 1]) => W[n] = HashStep(ArpHash, W[n - 1], (s + n) % ArpHash.n)
    BY <1>6, <2>1
  <2>4. HashRest(ArpHash, t, s, W[ArpHash.n - 1].tab)
    BY <1>1, <2>1, <2>2, <2>3, HashRun
  <2> QED BY <2>1, <2>4
<1>8. HashWell(ArpHash, Del(t, s)) /\ Cardinality(ArpUsed(Del(t, s))) = Cardinality(ArpUsed(t)) - 1
  BY <1>2, <1>7, ArpHashIs DEF HashRest, HashFrom
<1>9. Cardinality(ArpUsed(t)) \in Nat /\ (3 * ArpN) \div 4 \in Nat /\ Cardinality(ArpUsed(t)) <= (3 * ArpN) \div 4
  BY ArpLoad DEF ArpWell
<1> QED BY <1>8, <1>9 DEF ArpWell

-----------------------------------------------------------------------------
(* The clock reaps entries, each removal moving others.                    *)
ArpAt == {w \in [tab : ArpTable, at : 0 .. ArpN] : ArpWell(w.tab)}
ArpWalk(t) ==
  CHOOSE g : g = [n \in 0 .. 2 * ArpN |->
    IF n = 0 THEN [tab |-> t, at |-> 0] ELSE ArpThe({Visit(was) : was \in {g[n - 1]}})]

LEMMA VisitWell ==
  ASSUME NEW w \in ArpAt
  PROVE  Visit(w) \in ArpAt
<1>1. w \in [tab : ArpTable, at : 0 .. ArpN] /\ ArpWell(w.tab) /\ ArpN \in Nat
  BY ArpAssumption DEF ArpAt
<1>2. w.tab \in ArpTable /\ w.at \in 0 .. ArpN
  BY <1>1
<1>3. CASE w.at = ArpN
  BY <1>3 DEF Visit
<1>4. CASE w.at # ArpN /\ ArpStale(w.tab[w.at])
  <2> DEFINE d == Del(w.tab, w.at)
  <2>1. w.at \in ArpUsed(w.tab)
    BY <1>1, <1>2, <1>4 DEF ArpStale, ArpUsed, ArpSlot
  <2>2. ArpWell(d)
    BY <1>1, <2>1, DelWell
  <2> HIDE DEF d
  <2>3. d \in ArpTable
    BY <2>2, ArpHashIs DEF ArpWell, HashWell
  <2>4. Visit(w) = [w EXCEPT !.tab = d]
    BY <1>4 DEF Visit, d
  <2> QED BY <1>1, <2>2, <2>3, <2>4 DEF ArpAt
<1>5. CASE w.at # ArpN /\ ~ArpStale(w.tab[w.at])
  <2>1. Visit(w) = [w EXCEPT !.at = w.at + 1]
    BY <1>5 DEF Visit
  <2>2. w.at + 1 \in 0 .. ArpN
    BY <1>1, <1>2, <1>5
  <2> QED BY <1>1, <2>1, <2>2 DEF ArpAt
<1> QED BY <1>3, <1>4, <1>5

LEMMA ArpReapWell ==
  ASSUME NEW t, ArpWell(t)
  PROVE  ArpWell(ArpReap(t))
<1> DEFINE M == 2 * ArpN
           a == [tab |-> t, at |-> 0]
           St == ArpAt
           G == [w \in St |-> Visit(w)]
           H == [n \in 1 .. M |-> G]
           Is(g) == g = [n \in 0 .. M |-> IF n = 0 THEN a ELSE ArpThe({Visit(w) : w \in {g[n - 1]}})]
<1>1. M \in Nat /\ 0 \in 0 .. ArpN
  BY ArpAssumption
<1>2. a \in St
  <2>1. t \in ArpTable
    BY ArpHashIs DEF ArpWell, HashWell
  <2>2. a \in [tab : ArpTable, at : 0 .. ArpN] /\ a.tab = t
    BY <1>1, <2>1
  <2> HIDE DEF a
  <2> QED BY <2>2 DEF ArpAt
<1>3. G \in [St -> St]
  <2> HIDE DEF St
  <2>1. \A w \in St : Visit(w) \in St
    BY VisitWell DEF St
  <2> QED BY <2>1
<1>4. \A w : ArpThe({Visit(v) : v \in {w}}) = Visit(w)
  BY DEF ArpThe
<1> HIDE DEF M, a, St
<1>5. H \in [1 .. M -> [St -> St]] /\ \A n \in 1 .. M : H[n] = G
  <2> HIDE DEF G
  <2> QED BY <1>3
<1> HIDE DEF H
<1>6. PICK f \in StepRuns(St, a, M, H) : TRUE
  BY <1>1, <1>2, <1>5, StepsExist
<1>7. f \in [0 .. M -> St] /\ f[0] = a /\ \A n \in 1 .. M : f[n] = H[n][f[n - 1]]
  BY ONLY <1>6 DEF StepRuns
<1>8. ASSUME NEW n \in 0 .. M PROVE f[n] = IF n = 0 THEN a ELSE ArpThe({Visit(w) : w \in {f[n - 1]}})
  <2>1. CASE n = 0
    BY <1>7, <2>1
  <2>2. CASE n # 0
    <3>1. n \in 1 .. M /\ n - 1 \in 0 .. M
      BY <1>1, <2>2
    <3>2. f[n] = Visit(f[n - 1])
      BY <1>5, <1>7, <3>1 DEF G
    <3> QED BY <1>4, <2>2, <3>2
  <2> QED BY <2>1, <2>2
<1> DEFINE W == ArpWalk(t)
<1>9. Is(f)
  BY <1>7, <1>8
<1>10. W = CHOOSE g : Is(g)
  BY DEF ArpWalk, M, a
<1>11. Is(W)
  <2> HIDE DEF Is, W
  <2> QED BY <1>9, <1>10
<1>12. ArpReap(t) = W[M].tab
  BY DEF ArpReap, ArpWalk, M
<1> HIDE DEF W
<1>13. \A m \in 0 .. M : W[m] = IF m = 0 THEN a ELSE ArpThe({Visit(w) : w \in {W[m - 1]}})
  BY <1>11
<1> DEFINE S == {n \in 0 .. M : W[n] \in St}
<1>14. 0 \in S
  <2>1. 0 \in 0 .. M
    BY <1>1
  <2>2. W[0] = IF 0 = 0 THEN a ELSE ArpThe({Visit(w) : w \in {W[0 - 1]}})
    BY <1>13, <2>1
  <2> QED BY <1>2, <2>1, <2>2
<1>15. ASSUME NEW n \in Nat, n \in S, n < M PROVE n + 1 \in S
  <2>1. n + 1 \in 0 .. M /\ n + 1 # 0 /\ n + 1 - 1 = n /\ W[n] \in St
    BY <1>1, <1>15
  <2>2. W[n + 1] = ArpThe({Visit(w) : w \in {W[n + 1 - 1]}})
    BY <1>13, <2>1
  <2>3. W[n + 1] = Visit(W[n])
    BY <1>4, <2>1, <2>2
  <2> QED BY <2>1, <2>3, VisitWell DEF St
<1>16. W[M] \in St
  <2> HIDE DEF S
  <2>1. \A n \in 0 .. M : n \in S
    BY <1>1, <1>14, <1>15, Inducts
  <2>2. M \in S
    BY <1>1, <2>1
  <2> QED BY <2>2 DEF S
<1> QED BY <1>12, <1>16 DEF St, ArpAt

-----------------------------------------------------------------------------
\* Whoever was asked for since the clock advanced has an entry that remembers it.
ArpRemembered(t, ip) ==
  \E s \in ArpUsed(t) : t[s].ip = ip /\ (t[s].state = "incomplete" => t[s].age = 0)
ArpInv ==
  /\ ArpWell(neigh)
  /\ asked \in [ArpAddr -> {0, 1}]
  /\ \A ip \in ArpAddr : asked[ip] = 1 => ArpRemembered(neigh, ip)

\* Writing an entry where the probe for its address ends.
LEMMA ArpPut ==
  ASSUME NEW t, ArpWell(t), NEW e \in ArpEntry, Room(t, e.ip),
         NEW r, r = [t EXCEPT ![NeighSlot(t, e.ip)] = e]
  PROVE  /\ ArpWell(r)
         /\ (e.state = "incomplete" => e.age = 0) => ArpRemembered(r, e.ip)
         /\ \A ip \in ArpAddr : ip # e.ip /\ ArpRemembered(t, ip) => ArpRemembered(r, ip)
<1> DEFINE s == NeighSlot(t, e.ip)
<1>0. r = [t EXCEPT ![s] = e]
  OBVIOUS
<1>1. e.ip \in ArpAddr /\ t \in ArpTable /\ HashWell(ArpHash, t) /\ HashArgs(ArpHash) /\ e # ArpFree
  BY ArpEntryHas, ArpHashIs DEF ArpWell, HashWell
<1>2. s # None /\ (t[s] = ArpFree => Cardinality(ArpUsed(t)) + 1 <= (3 * ArpN) \div 4)
  BY DEF Room
<1>3. /\ s \in ArpSlot /\ HashEnd(ArpHash, t, e.ip, s)
      /\ t[s] = ArpFree \/ (t[s] \in ArpEntry /\ t[s].ip = e.ip)
  BY <1>1, <1>2, NeighSlotAt
<1>4. e \in ArpHash.val /\ HashEnd(ArpHash, t, ArpHash.key[e], s)
  BY <1>3, ArpHashIs
<1> HIDE DEF s
<1>5. HashWell(ArpHash, r) /\ HashUsed(ArpHash, r) = HashUsed(ArpHash, t) \cup {s}
  <2>1. r = HashWith(t, s, e)
    BY <1>0 DEF HashWith
  <2> DEFINE h == ArpHash
  <2>2. HashArgs(h) /\ HashWell(h, t) /\ e \in h.val /\ HashEnd(h, t, h.key[e], s) /\ r = HashWith(t, s, e)
    BY <1>1, <1>4, <2>1
  <2> HIDE DEF h
  <2>3. HashWell(h, r) /\ HashUsed(h, r) = HashUsed(h, t) \cup {s}
    BY ONLY <2>2, HashPutWell
  <2> QED BY <2>3 DEF h
<1>6. ArpUsed(r) = ArpUsed(t) \cup {s}
  BY <1>5, ArpHashIs
<1>7. r[s] = e /\ \A x \in ArpSlot : x # s => r[x] = t[x]
  BY <1>0, <1>1, <1>3 DEF ArpTable
<1>8. Cardinality(ArpUsed(r)) <= (3 * ArpN) \div 4
  <2>1. IsFiniteSet(ArpUsed(t)) /\ Cardinality(ArpUsed(t)) <= (3 * ArpN) \div 4
    BY ArpLoad DEF ArpWell
  <2>2. CASE t[s] = ArpFree
    <3>1. s \notin ArpUsed(t)
      BY <2>2 DEF ArpUsed
    <3>2. Cardinality(ArpUsed(t) \cup {s}) = Cardinality(ArpUsed(t)) + 1
      BY <2>1, <3>1, FS_AddElement
    <3> QED BY <1>2, <1>6, <2>2, <3>2
  <2>3. CASE t[s] # ArpFree
    <3>1. ArpUsed(r) = ArpUsed(t)
      BY <1>3, <1>6, <2>3 DEF ArpUsed
    <3> QED BY <2>1, <3>1
  <2> QED BY <2>2, <2>3
<1>9. ArpWell(r)
  BY <1>5, <1>8 DEF ArpWell
<1>10. (e.state = "incomplete" => e.age = 0) => ArpRemembered(r, e.ip)
  BY <1>6, <1>7 DEF ArpRemembered
<1>11. ASSUME NEW ip \in ArpAddr, ip # e.ip, ArpRemembered(t, ip) PROVE ArpRemembered(r, ip)
  <2>1. PICK x \in ArpUsed(t) : t[x].ip = ip /\ (t[x].state = "incomplete" => t[x].age = 0)
    BY <1>11 DEF ArpRemembered
  <2>2. x # s /\ x \in ArpSlot /\ x \in ArpUsed(r)
    BY <1>3, <1>6, <1>11, <2>1 DEF ArpUsed
  <2>3. r[x] = t[x]
    BY <1>7, <2>2
  <2> QED BY <2>1, <2>2, <2>3 DEF ArpRemembered
<1> QED BY <1>9, <1>10, <1>11 DEF s

LEMMA LearnKeeps == ASSUME ArpInv, NEW ip \in ArpAddr, NEW mac \in Mac, Learn(ip, mac) PROVE ArpInv'
<1> DEFINE s == NeighSlot(neigh, ip)
           old == IF neigh[s] = ArpFree THEN 0 ELSE neigh[s].age
           e == [ip |-> ip, mac |-> mac, state |-> "reachable", probes |-> 0, age |-> old]
<1>1. neigh' = Add(neigh, ip, mac) /\ asked' = asked /\ ArpWell(neigh)
  BY DEF Learn, ArpInv
<1>2. Add(neigh, ip, mac) = IF ~Room(neigh, ip) THEN neigh ELSE [neigh EXCEPT ![s] = e]
  BY DEF Add
<1>3. CASE ~Room(neigh, ip)
  BY <1>1, <1>2, <1>3 DEF ArpInv
<1>4. CASE Room(neigh, ip)
  <2>1. neigh \in ArpTable /\ s # None
    BY <1>1, <1>4, ArpHashIs DEF ArpWell, HashWell, Room
  <2>2. s \in ArpSlot /\ (neigh[s] = ArpFree \/ neigh[s] \in ArpEntry)
    BY <2>1, NeighSlotAt
  <2>3. old \in 0 .. Dead
    BY <2>2, ArpEntryHas, ArpAssumption
  <2> HIDE DEF old
  <2>4. e \in ArpEntry
    <3>1. 0 \in 0 .. MaxProbes
      BY ArpAssumption
    <3> QED BY <2>3, <3>1, ArpEntryIs
  <2>5. e.ip = ip /\ e.state # "incomplete"
    OBVIOUS
  <2>6. neigh' = [neigh EXCEPT ![NeighSlot(neigh, e.ip)] = e] /\ Room(neigh, e.ip)
    BY <1>1, <1>2, <1>4, <2>5 DEF old
  <2> HIDE DEF e
  <2>7. ArpWell(neigh') /\ ArpRemembered(neigh', ip)
    BY <1>1, <2>4, <2>5, <2>6, ArpPut
  <2>8. \A a \in ArpAddr : a # ip /\ ArpRemembered(neigh, a) => ArpRemembered(neigh', a)
    BY <1>1, <2>4, <2>5, <2>6, ArpPut
  <2> QED BY <1>1, <2>7, <2>8 DEF ArpInv
<1> QED BY <1>3, <1>4

LEMMA ArpPacketKeeps == ASSUME ArpInv, NEW ip \in ArpAddr, ArpPacket(ip) PROVE ArpInv'
<1> DEFINE f == Find(neigh, ip)
           s == NeighSlot(neigh, ip)
           probes == IF f = ArpFree THEN 0 ELSE f.probes
           mac == IF f = ArpFree THEN Null ELSE f.mac
           e == [ip |-> ip, mac |-> mac, state |-> "incomplete", probes |-> probes + 1, age |-> 0]
<1>1. /\ MayAsk(f) /\ Room(neigh, ip) /\ neigh' = [neigh EXCEPT ![s] = e]
      /\ asked' = [asked EXCEPT ![ip] = asked[ip] + 1] /\ ArpWell(neigh) /\ asked \in [ArpAddr -> {0, 1}]
  BY DEF ArpPacket, ArpInv
<1>2. neigh \in ArpTable /\ s # None /\ HashWell(ArpHash, neigh)
  BY <1>1, ArpHashIs DEF ArpWell, HashWell, Room
<1>3. s \in ArpSlot /\ f = neigh[s] /\ (f = ArpFree \/ (f \in ArpEntry /\ f.ip = ip))
  BY <1>2, NeighSlotAt DEF Find
\* The entry of an address asked for remembers it, so it is not yet time.
<1>4. asked[ip] = 0
  <2> SUFFICES ASSUME asked[ip] = 1 PROVE FALSE
    BY <1>1
  <2>1. PICK x \in ArpUsed(neigh) : neigh[x].ip = ip /\ (neigh[x].state = "incomplete" => neigh[x].age = 0)
    BY DEF ArpInv, ArpRemembered
  <2>2. neigh[x] \in ArpEntry /\ x \in HashUsed(ArpHash, neigh)
    BY <1>2, <2>1, ArpHashIs DEF ArpUsed, ArpTable
  <2>3. ArpHash.key[neigh[x]] = ip
    BY <2>1, <2>2, ArpHashIs
  <2>4. s = x
    <3>1. HashArgs(ArpHash) /\ None \notin HashSlot(ArpHash) /\ ip \in ArpHash.keys
      BY ArpHashIs
    <3>2. HashProbe(ArpHash, neigh, ip) = x
      BY <1>2, <2>2, <2>3, <3>1, HashProbeFinds
    <3> QED BY <1>2, <3>2, NeighSlotIs
  <2>5. f = neigh[x] /\ f # ArpFree
    BY <1>3, <2>1, <2>4 DEF ArpUsed
  <2> QED BY <1>1, <2>1, <2>5 DEF MayAsk
<1>5. e \in ArpEntry
  <2>1. probes + 1 \in 0 .. MaxProbes
    <3>1. MaxProbes \in Nat \ {0}
      BY ArpAssumption
    <3>2. CASE f = ArpFree
      BY <3>1, <3>2
    <3>3. CASE f # ArpFree
      <4>1. f.probes \in 0 .. MaxProbes /\ f.probes < MaxProbes
        BY <1>1, <1>3, <3>3, ArpEntryHas DEF MayAsk
      <4> QED BY <3>1, <3>3, <4>1
    <3> QED BY <3>2, <3>3
  <2>2. mac \in Mac \cup {Null}
    BY <1>3, ArpEntryHas
  <2>3. 0 \in 0 .. Dead
    BY ArpAssumption
  <2> HIDE DEF probes, mac
  <2> QED BY <2>1, <2>2, <2>3, ArpEntryIs
<1>6. e.ip = ip /\ e.age = 0
  OBVIOUS
<1> HIDE DEF e, f
<1>7. neigh' = [neigh EXCEPT ![NeighSlot(neigh, e.ip)] = e] /\ Room(neigh, e.ip)
  BY <1>1, <1>6
<1>8. ArpWell(neigh') /\ ArpRemembered(neigh', ip)
  BY <1>1, <1>5, <1>6, <1>7, ArpPut
<1>9. \A a \in ArpAddr : a # ip /\ ArpRemembered(neigh, a) => ArpRemembered(neigh', a)
  BY <1>1, <1>5, <1>6, <1>7, ArpPut
<1>10. asked' \in [ArpAddr -> {0, 1}] /\ \A a \in ArpAddr : a # ip => asked'[a] = asked[a]
  BY <1>1, <1>4
<1>11. \A a \in ArpAddr : asked'[a] = 1 => ArpRemembered(neigh', a)
  BY <1>8, <1>9, <1>10 DEF ArpInv
<1> QED BY <1>8, <1>10, <1>11 DEF ArpInv

\* Growing older moves nothing.
LEMMA ArpSecondKeeps == ASSUME ArpInv, ArpSecond PROVE ArpInv'
<1> DEFINE Older(e) == IF e = ArpFree \/ e.age = Dead THEN e ELSE [e EXCEPT !.age = e.age + 1]
           t == [s \in ArpSlot |-> Older(neigh[s])]
<1>1. neigh' = ArpReap(t) /\ asked' = [ip \in ArpAddr |-> 0]
  BY DEF ArpSecond
<1>2. ArpWell(neigh) /\ neigh \in ArpTable /\ HashWell(ArpHash, neigh)
  BY ArpHashIs DEF ArpInv, ArpWell, HashWell
<1>3. ASSUME NEW x \in ArpSlot
      PROVE  /\ t[x] \in ArpEntry \cup {ArpFree} /\ (t[x] = ArpFree <=> neigh[x] = ArpFree)
             /\ neigh[x] # ArpFree => neigh[x] \in ArpEntry /\ t[x] \in ArpEntry /\ t[x].ip = neigh[x].ip
  <2> DEFINE e == neigh[x]
  <2>1. t[x] = Older(e) /\ e \in ArpEntry \cup {ArpFree}
    BY <1>2 DEF ArpTable
  <2>2. CASE e = ArpFree
    BY <2>1, <2>2
  <2>3. CASE e # ArpFree /\ e.age = Dead
    BY <2>1, <2>3
  <2>4. CASE e # ArpFree /\ e.age # Dead
    <3>1. /\ e \in ArpEntry /\ e.age \in 0 .. Dead /\ Dead \in Nat /\ t[x] = [e EXCEPT !.age = e.age + 1]
      BY <2>1, <2>4, ArpEntryHas, ArpAssumption
    <3> HIDE DEF e, t
    <3>2. e.age + 1 \in 0 .. Dead
      BY <2>4, <3>1
    <3>3. t[x] \in ArpEntry /\ t[x].ip = e.ip
      BY <3>1, <3>2 DEF ArpEntry
    <3>4. t[x] # ArpFree
      BY <3>3, ArpEntryHas
    <3> QED BY <2>4, <3>1, <3>3, <3>4 DEF e
  <2> QED BY <2>2, <2>3, <2>4
<1>4. t \in ArpTable
  BY <1>3 DEF ArpTable
<1> HIDE DEF t
<1>5. ArpUsed(t) = ArpUsed(neigh) /\ HashUsed(ArpHash, t) = HashUsed(ArpHash, neigh)
  BY <1>3, ArpHashIs DEF ArpUsed
<1>6. \A x \in ArpUsed(neigh) : ArpHash.key[t[x]] = ArpHash.key[neigh[x]]
  BY <1>3, ArpHashIs DEF ArpUsed
<1>7. ASSUME NEW x \in HashUsed(ArpHash, t) PROVE HashReached(ArpHash, t, x)
  <2>1. x \in ArpUsed(neigh) /\ HashReached(ArpHash, neigh, x) /\ HashHome(ArpHash, t[x]) = HashHome(ArpHash, neigh[x])
    BY <1>2, <1>5, <1>6, <1>7, ArpHashIs DEF HashWell, HashHome
  <2>2. \A y \in ArpSlot : neigh[y] # ArpFree => t[y] # ArpFree
    BY <1>3
  <2> QED BY <2>1, <2>2, ArpHashIs DEF HashReached
<1>8. \A x, y \in HashUsed(ArpHash, t) : ArpHash.key[t[x]] = ArpHash.key[t[y]] => x = y
  BY <1>2, <1>5, <1>6, ArpHashIs DEF HashWell
<1>9. HashWell(ArpHash, t)
  BY <1>4, <1>7, <1>8, ArpHashIs DEF HashWell
<1>10. ArpWell(t)
  BY <1>2, <1>5, <1>9 DEF ArpWell
<1>11. ArpWell(neigh')
  BY <1>1, <1>10, ArpReapWell
<1> QED BY <1>1, <1>11 DEF ArpInv

LEMMA ArpStarts == ASSUME ArpInit PROVE ArpInv
<1>1. neigh = [s \in ArpSlot |-> ArpFree] /\ asked = [ip \in ArpAddr |-> 0]
  BY DEF ArpInit
<1>2. neigh \in ArpTable /\ ArpUsed(neigh) = {}
  BY <1>1 DEF ArpTable, ArpUsed
<1>3. HashWell(ArpHash, neigh)
  BY <1>2, ArpHashIs DEF HashWell
<1>4. Cardinality(ArpUsed(neigh)) = 0
  BY <1>2, FS_EmptySet
<1>5. ArpWell(neigh)
  BY <1>3, <1>4, ArpLoad DEF ArpWell
<1> QED BY <1>1, <1>5 DEF ArpInv

LEMMA ArpNextKeeps == ASSUME ArpInv, [ArpNext]_arpVars PROVE ArpInv'
<1>1. CASE UNCHANGED arpVars
  <2>1. neigh' = neigh /\ asked' = asked
    BY <1>1 DEF arpVars
  <2> QED BY <2>1 DEF ArpInv
<1>2. CASE \E ip \in ArpAddr, mac \in Mac : Learn(ip, mac) \/ Overhear(ip, mac)
  BY <1>2, LearnKeeps DEF Overhear
<1>3. CASE \E ip \in ArpAddr : ArpPacket(ip)
  BY <1>3, ArpPacketKeeps
<1>4. CASE ArpSecond
  BY <1>4, ArpSecondKeeps
<1> QED BY <1>1, <1>2, <1>3, <1>4 DEF ArpNext

LEMMA ArpInvSafe == ASSUME ArpInv PROVE ArpSafe
<1>1. ArpWell(neigh) /\ neigh \in ArpTable /\ HashWell(ArpHash, neigh) /\ asked \in [ArpAddr -> {0, 1}]
  BY ArpHashIs DEF ArpInv, ArpWell, HashWell
<1>2. ASSUME NEW s \in ArpUsed(neigh) PROVE neigh[s] \in ArpEntry /\ NeighSlot(neigh, neigh[s].ip) = s
  <2>1. neigh[s] \in ArpEntry /\ neigh[s].ip \in ArpAddr /\ s \in HashUsed(ArpHash, neigh)
    BY <1>1, ArpEntryHas, ArpHashIs DEF ArpUsed, ArpTable
  <2>2. ArpHash.key[neigh[s]] = neigh[s].ip
    BY <2>1, ArpHashIs
  <2>3. HashArgs(ArpHash) /\ None \notin HashSlot(ArpHash) /\ neigh[s].ip \in ArpHash.keys
    BY <2>1, ArpHashIs
  <2>4. HashProbe(ArpHash, neigh, neigh[s].ip) = s
    BY <1>1, <2>1, <2>2, <2>3, HashProbeFinds
  <2> QED BY <1>1, <2>1, <2>4, NeighSlotIs
<1>3. asked \in [ArpAddr -> Nat] /\ \A ip \in ArpAddr : asked[ip] <= 1
  BY <1>1
<1> QED BY <1>1, <1>2, <1>3 DEF ArpSafe, ArpTypeOK, RequestsSpaced, ArpWell

\* "Without this ... a single flow toward an unreachable host becomes an ARP
\* flood": every entry is found by the probe for its address and two requests for
\* one address are a retry interval apart, however entries are added, reaped,
\* moved and made again.
THEOREM NeighboursSafe == ArpSpec => []ArpSafe
<1>1. ArpInit => ArpInv
  BY ArpStarts
<1>2. ArpInv /\ [ArpNext]_arpVars => ArpInv'
  BY ArpNextKeeps
<1>3. ArpInv => ArpSafe
  BY ArpInvSafe
<1> QED BY <1>1, <1>2, <1>3, PTL DEF ArpSpec

-----------------------------------------------------------------------------
(* The routing table.                                                      *)
FibHash ==
  [n |-> FibN, free |-> FibFree, val |-> FibRoutes, keys |-> Prefixes, key |-> [r \in FibRoutes |-> r.prefix],
   home |-> FibHome, again |-> [r \in FibRoutes |-> Route(r.prefix, r.path, 0)]]
FibTable == [FibSlot -> FibRoutes \cup {FibFree}]

LEMMA FibRouteIs ==
  ASSUME NEW p \in Prefixes, NEW path \in Paths \cup {Zero}, NEW g \in Groups \cup {0}
  PROVE  /\ Route(p, path, g) \in FibRoutes /\ Route(p, path, g).prefix = p /\ Route(p, path, g).path = path
         /\ Route(p, path, g).ecmp = g
BY DEF FibRoutes, Route

LEMMA FibRouteHas ==
  ASSUME NEW r \in FibRoutes
  PROVE  /\ r.prefix \in Prefixes /\ r.path \in Paths \cup {Zero} /\ r.ecmp \in Groups \cup {0} /\ r # FibFree
         /\ r.ecmp = 0 => r = Route(r.prefix, r.path, 0)
<1>1. r.prefix \in Prefixes /\ r.path \in Paths \cup {Zero} /\ r.ecmp \in Groups \cup {0}
  BY DEF FibRoutes
<1>2. r = [prefix |-> r.prefix, path |-> r.path, ecmp |-> r.ecmp]
  BY DEF FibRoutes
<1>3. r.ecmp = 0 => r = Route(r.prefix, r.path, 0)
  BY <1>2 DEF Route
<1> QED BY <1>1, <1>3, FibAssumption

LEMMA FibHashIs ==
  /\ HashArgs(FibHash) /\ HashSlot(FibHash) = FibSlot /\ HashTable(FibHash) = FibTable
  /\ FibHash.n = FibN /\ FibHash.free = FibFree /\ FibHash.val = FibRoutes /\ FibHash.keys = Prefixes
  /\ FibHash.home = FibHome
  /\ \A r \in FibRoutes : FibHash.key[r] = r.prefix /\ FibHash.again[r] = Route(r.prefix, r.path, 0)
  /\ \A t : HashUsed(FibHash, t) = FibUsed(t)
  /\ None \notin HashSlot(FibHash)
<1>1. /\ FibHash.n = FibN /\ FibHash.free = FibFree /\ FibHash.val = FibRoutes /\ FibHash.keys = Prefixes
      /\ FibHash.home = FibHome /\ FibHash.key = [r \in FibRoutes |-> r.prefix]
      /\ FibHash.again = [r \in FibRoutes |-> Route(r.prefix, r.path, 0)]
  BY DEF FibHash
<1>2. ASSUME NEW r \in FibRoutes
      PROVE  /\ r.prefix \in Prefixes /\ Route(r.prefix, r.path, 0) \in FibRoutes
             /\ Route(r.prefix, r.path, 0).prefix = r.prefix
  BY FibRouteHas, FibRouteIs
<1>3. \A r \in FibRoutes : FibHash.key[r] = r.prefix /\ FibHash.again[r] = Route(r.prefix, r.path, 0)
  BY <1>1
<1>4. HashSlot(FibHash) = FibSlot
  BY <1>1 DEF HashSlot, FibSlot
<1>5. HashArgs(FibHash)
  <2>1. FibHash.key \in [FibRoutes -> Prefixes]
    BY <1>1, <1>2
  <2>2. FibHash.again \in [FibRoutes -> FibRoutes]
    BY <1>1, <1>2
  <2>3. \A v \in FibRoutes : FibHash.key[FibHash.again[v]] = FibHash.key[v]
    BY <1>2, <1>3
  <2>4. FibHash.home \in [Prefixes -> 0 .. FibN - 1]
    BY <1>1, FibAssumption DEF FibSlot
  <2>5. FibN \in Nat \ {0} /\ FibFree \notin FibRoutes
    BY FibAssumption
  <2> QED BY <1>1, <2>1, <2>2, <2>3, <2>4, <2>5 DEF HashArgs
<1>6. HashTable(FibHash) = FibTable
  BY <1>1, <1>4 DEF HashTable, FibTable
<1>7. \A t : HashUsed(FibHash, t) = FibUsed(t)
  BY <1>1, <1>4 DEF HashUsed, FibUsed
<1>8. None \notin FibSlot
  BY FibAssumption
<1> QED BY <1>1, <1>3, <1>4, <1>5, <1>6, <1>7, <1>8

LEMMA RouteSlotIs ==
  ASSUME NEW t \in FibTable, NEW p \in Prefixes
  PROVE  RouteSlot(t, p) = HashProbe(FibHash, t, p)
<1> DEFINE At(n) == (FibHome[p] + n) % FibN
           EA == {n \in 0 .. FibN - 1 : t[At(n)] = FibFree \/ t[At(n)].prefix = p}
           EH == {n \in 0 .. FibN - 1 : t[At(n)] = FibFree \/ FibHash.key[t[At(n)]] = p}
<1>1. \A n \in 0 .. FibN - 1 : At(n) \in FibSlot
  <2>1. HashArgs(FibHash) /\ FibHome[p] \in HashSlot(FibHash) /\ FibHash.n = FibN /\ HashSlot(FibHash) = FibSlot
    BY FibHashIs, FibAssumption
  <2> QED BY <2>1, HashAt
<1>2. \A n \in 0 .. FibN - 1 : t[At(n)] = FibFree \/ FibHash.key[t[At(n)]] = t[At(n)].prefix
  BY <1>1, FibHashIs DEF FibTable
<1>3. EA = EH
  BY <1>2
<1>4. FibHash.home = FibHome /\ FibHash.n = FibN /\ FibHash.free = FibFree
  BY FibHashIs
<1>5. HashProbe(FibHash, t, p) = IF EH = {} THEN None ELSE At(CHOOSE n \in EH : \A m \in EH : n <= m)
  BY <1>4 DEF HashProbe
<1>6. RouteSlot(t, p) = IF EA = {} THEN None ELSE At(CHOOSE n \in EA : \A m \in EA : n <= m)
  BY DEF RouteSlot
<1> HIDE DEF EA, EH, At
<1> QED BY <1>3, <1>5, <1>6

LEMMA RouteSlotAt ==
  ASSUME NEW t \in FibTable, NEW p \in Prefixes, RouteSlot(t, p) # None
  PROVE  /\ RouteSlot(t, p) \in FibSlot /\ HashEnd(FibHash, t, p, RouteSlot(t, p))
         /\ t[RouteSlot(t, p)] = FibFree \/ (t[RouteSlot(t, p)] \in FibRoutes /\ t[RouteSlot(t, p)].prefix = p)
<1> DEFINE s == RouteSlot(t, p)
<1>1. s = HashProbe(FibHash, t, p)
  BY RouteSlotIs
<1>2. HashEnd(FibHash, t, p, s)
  <2>1. HashArgs(FibHash) /\ p \in FibHash.keys /\ None \notin HashSlot(FibHash)
    BY FibHashIs
  <2> QED BY <1>1, <2>1, HashProbeIs
<1> HIDE DEF s
<1>3. s \in FibSlot /\ (t[s] = FibFree \/ FibHash.key[t[s]] = p)
  BY <1>2, FibHashIs DEF HashEnd
<1>4. t[s] = FibFree \/ t[s] \in FibRoutes
  BY <1>3 DEF FibTable
<1>5. t[s] = FibFree \/ (t[s] \in FibRoutes /\ t[s].prefix = p)
  BY <1>3, <1>4, FibHashIs
<1> QED BY <1>2, <1>3, <1>5 DEF s

\* A well-formed table holds at most one route to a prefix, where its probe ends.
LEMMA RouteSlotFinds ==
  ASSUME NEW t, HashWell(FibHash, t), NEW p \in Prefixes
  PROVE  \A x \in FibUsed(t) : t[x].prefix = p => RouteSlot(t, p) = x
<1> SUFFICES ASSUME NEW x \in FibUsed(t), t[x].prefix = p PROVE RouteSlot(t, p) = x
  OBVIOUS
<1>1. t \in FibTable /\ x \in HashUsed(FibHash, t) /\ t[x] \in FibRoutes
  BY FibHashIs DEF HashWell, FibUsed, FibTable
<1>2. FibHash.key[t[x]] = p
  BY <1>1, FibHashIs
<1>3. HashArgs(FibHash) /\ None \notin HashSlot(FibHash) /\ p \in FibHash.keys
  BY FibHashIs
<1>4. HashProbe(FibHash, t, p) = x
  BY <1>1, <1>2, <1>3, HashProbeFinds
<1> QED BY <1>1, <1>4, RouteSlotIs

\* No route of table t refers to a group outside G.
FibLive(t, G) == t \in FibTable /\ \A x \in FibUsed(t) : t[x].ecmp # 0 => t[x].ecmp \in G

LEMMA FibWrite ==
  ASSUME NEW t, NEW G, FibLive(t, G), NEW s \in FibSlot, NEW p \in Prefixes, NEW path \in Paths \cup {Zero},
         NEW g \in Groups \cup {0}, g # 0 => g \in G, NEW w, w = HashWith(t, s, Route(p, path, g))
  PROVE  /\ FibLive(w, G) /\ w[s] = Route(p, path, g) /\ FibUsed(w) = FibUsed(t) \cup {s}
         /\ \A x \in FibSlot : x # s => w[x] = t[x]
<1> DEFINE r == Route(p, path, g)
<1>1. r \in FibRoutes /\ r.ecmp = g /\ r # FibFree
  BY FibRouteIs, FibRouteHas
<1> HIDE DEF r
<1>2. t \in FibTable
  BY DEF FibLive
<1>3. w = [t EXCEPT ![s] = r]
  BY DEF r, HashWith
<1>4. w \in FibTable /\ w[s] = r /\ \A x \in FibSlot : x # s => w[x] = t[x]
  BY <1>1, <1>2, <1>3 DEF FibTable
<1>5. FibUsed(w) = FibUsed(t) \cup {s}
  BY <1>1, <1>4 DEF FibUsed
<1>6. \A x \in FibUsed(w) : w[x].ecmp # 0 => w[x].ecmp \in G
  BY <1>1, <1>4, <1>5 DEF FibLive, FibUsed
<1> QED BY <1>4, <1>5, <1>6 DEF FibLive, r

LEMMA AddedLive ==
  ASSUME NEW t, NEW G, FibLive(t, G), NEW p \in Prefixes, NEW path \in Paths \cup {Zero}
  PROVE  FibLive(Added(t, p, path), G)
<1>1. CASE FibFull(t, p)
  BY <1>1 DEF Added
<1>2. CASE ~FibFull(t, p)
  <2> DEFINE s == RouteSlot(t, p)
             w == [t EXCEPT ![s] = Route(p, path, 0)]
  <2>1. s # None /\ t \in FibTable
    BY <1>2 DEF FibFull, FibLive
  <2>2. s \in FibSlot
    BY <2>1, RouteSlotAt
  <2>3. Added(t, p, path) = w
    BY <1>2 DEF Added
  <2> HIDE DEF s
  <2> DEFINE zero == 0
  <2>4. zero \in Groups \cup {0} /\ (zero # 0 => zero \in G) /\ w = HashWith(t, s, Route(p, path, zero))
    BY DEF HashWith
  <2> HIDE DEF zero, w
  <2>5. FibLive(w, G)
    BY <2>2, <2>4, FibWrite
  <2> QED BY <2>3, <2>5
<1> QED BY <1>1, <1>2

-----------------------------------------------------------------------------
\* Removing from a table that is not over its load limit.
FibWell(t) == HashWell(FibHash, t)

LEMMA FibLoad ==
  /\ (3 * FibN) \div 4 \in Nat /\ (3 * FibN) \div 4 < FibN
  /\ \A t : Cardinality(FibUsed(t)) \in Nat /\ IsFiniteSet(FibUsed(t))
<1>1. FibN \in Nat \ {0}
  BY FibAssumption
<1>2. (3 * FibN) \div 4 \in Nat /\ (3 * FibN) \div 4 < FibN
  BY <1>1
<1>3. \A t : HashUsed(FibHash, t) = FibUsed(t) /\ HashArgs(FibHash)
  BY FibHashIs
<1>4. \A t : Cardinality(FibUsed(t)) \in Nat /\ IsFiniteSet(FibUsed(t))
  BY <1>3, HashFinite
<1> QED BY <1>2, <1>4

LEMMA FibFreeSlot ==
  ASSUME NEW t, Cardinality(FibUsed(t)) <= (3 * FibN) \div 4
  PROVE  \E f \in FibSlot : t[f] = FibFree
<1> SUFFICES ASSUME \A f \in FibSlot : t[f] # FibFree PROVE FALSE
  OBVIOUS
<1>1. FibUsed(t) = 0 .. FibN - 1
  BY DEF FibUsed, FibSlot
<1>2. 0 \in Int /\ FibN - 1 \in Int /\ FibN \in Nat \ {0}
  BY FibAssumption
<1>3. Cardinality(0 .. FibN - 1) = FibN
  <2>1. Cardinality(0 .. FibN - 1) = IF 0 > FibN - 1 THEN 0 ELSE FibN - 1 - 0 + 1
    BY <1>2, FS_Interval
  <2> QED BY <1>2, <2>1
<1> QED BY <1>1, <1>2, <1>3, FibLoad

\* A route taken out for a while finds room again.
LEMMA FibAgainIs ==
  ASSUME NEW t, FibWell(t), Cardinality(FibUsed(t)) <= (3 * FibN) \div 4, NEW s \in FibUsed(t), NEW n \in Nat,
         NEW was, NEW m \in FibSlot,
         HashOk(FibHash, t, s, n, was), HashDist(FibHash, m, s) = n + 1, n + 1 < FibN
  PROVE  FibAgain(was, m) = HashStep(FibHash, was, m)
<1> DEFINE r == was.tab
           e == r[m]
           r0 == [r EXCEPT ![m] = FibFree]
           l == HashProbe(FibHash, r0, e.prefix)
<1>1. r \in FibTable /\ (~was.done => HashWalk(FibHash, t, s, n, r))
  BY FibHashIs DEF HashOk
<1>2. CASE was.done \/ e = FibFree
  BY <1>2, FibHashIs DEF FibAgain, HashStep
<1>3. CASE ~was.done /\ e # FibFree
  <2>1. HashWalk(FibHash, t, s, n, r) /\ HashFrom(FibHash, t, s, r)
    BY <1>1, <1>3 DEF HashWalk
  <2>2. /\ Cardinality(FibUsed(r)) = Cardinality(FibUsed(t)) - 1
        /\ \A x, y \in FibUsed(r) : FibHash.key[r[x]] = FibHash.key[r[y]] => x = y
    BY <2>1, FibHashIs DEF HashFrom
  <2>3. e \in FibRoutes /\ e.prefix \in Prefixes /\ m \in FibUsed(r)
    BY <1>1, <1>3, FibRouteHas DEF FibTable, FibUsed
  <2>4. r0 \in FibTable /\ r0[m] = FibFree /\ \A x \in FibSlot : x # m => r0[x] = r[x]
    BY <1>1 DEF FibTable
  <2>5. Added(r0, e.prefix, e.path) = [r0 EXCEPT ![l] = Route(e.prefix, e.path, 0)]
    <3> HIDE DEF r0, e
    <3>1. RouteSlot(r0, e.prefix) = l
      BY <2>3, <2>4, RouteSlotIs
    <3>2. l # None
      <4>1. HashArgs(FibHash) /\ e.prefix \in FibHash.keys /\ None \notin HashSlot(FibHash)
        BY <2>3, FibHashIs
      <4>2. l = None => \A x \in FibSlot : r0[x] # FibFree
        BY <4>1, FibHashIs, HashProbeIs
      <4> QED BY <2>4, <4>2
    <3>3. l \in FibSlot /\ (r0[l] = FibFree \/ (r0[l] \in FibRoutes /\ r0[l].prefix = e.prefix))
      BY <2>3, <2>4, <3>1, <3>2, RouteSlotAt
    <3>4. r0[l] = FibFree
      <4> SUFFICES ASSUME r0[l] # FibFree PROVE FALSE
        OBVIOUS
      <4>1. l # m /\ r[l] = r0[l] /\ l \in FibUsed(r) /\ r[l].prefix = e.prefix /\ r[l] \in FibRoutes
        BY <2>4, <3>3 DEF FibUsed
      <4>2. FibHash.key[r[l]] = FibHash.key[r[m]]
        BY <2>3, <4>1, FibHashIs DEF e
      <4> QED BY <2>2, <2>3, <4>1, <4>2
    <3>5. Cardinality(FibUsed(r0)) + 1 <= (3 * FibN) \div 4
      <4>1. FibUsed(r0) = FibUsed(r) \ {m}
        BY <2>4 DEF FibUsed
      <4>2. Cardinality(FibUsed(r0)) = Cardinality(FibUsed(r)) - 1
        <5>1. IsFiniteSet(FibUsed(r)) /\ m \in FibUsed(r)
          BY <2>3, FibLoad
        <5>2. Cardinality(FibUsed(r) \ {m}) = Cardinality(FibUsed(r)) - 1
          BY <5>1, FS_RemoveElement
        <5> QED BY <4>1, <5>2
      <4>3. /\ Cardinality(FibUsed(t)) \in Nat /\ Cardinality(FibUsed(r)) \in Nat
            /\ Cardinality(FibUsed(r0)) \in Nat /\ (3 * FibN) \div 4 \in Nat
        BY FibLoad
      <4> QED BY <2>2, <4>2, <4>3
    <3>6. ~FibFull(r0, e.prefix)
      <4>1. ~(Cardinality(FibUsed(r0)) + 1 > (3 * FibN) \div 4)
        <5>1. Cardinality(FibUsed(r0)) \in Nat /\ (3 * FibN) \div 4 \in Nat
          BY FibLoad
        <5> QED BY <3>5, <5>1
      <4> QED BY <3>1, <3>2, <4>1 DEF FibFull
    <3> HIDE DEF l
    <3> QED BY <3>1, <3>6 DEF Added
  <2>6. FibAgain(was, m) = [was EXCEPT !.tab = Added(r0, e.prefix, e.path)]
    BY <1>3 DEF FibAgain
  <2>7. FibHash.key[r[m]] = e.prefix /\ FibHash.again[r[m]] = Route(e.prefix, e.path, 0) /\ FibHash.free = FibFree
    BY <2>3, FibHashIs
  <2>8. HashStep(FibHash, was, m) = [was EXCEPT !.tab = [r0 EXCEPT ![l] = Route(e.prefix, e.path, 0)]]
    BY <1>3, <2>7 DEF HashStep
  <2> QED BY <2>5, <2>6, <2>8
<1> QED BY <1>2, <1>3

FibRun(t, s) ==
  CHOOSE g : g = [n \in 0 .. FibN - 1 |->
    IF n = 0 THEN [tab |-> [t EXCEPT ![s] = FibFree], done |-> FALSE]
    ELSE FibAgain(g[n - 1], (s + n) % FibN)]

\* Whatever the table, removal is defined and refers to no new group.
LEMMA FibRunSteps ==
  ASSUME NEW t, NEW G, FibLive(t, G), NEW s \in FibSlot
  PROVE  /\ FibRun(t, s)[0] = [tab |-> [t EXCEPT ![s] = FibFree], done |-> FALSE]
         /\ \A n \in 1 .. FibN - 1 : FibRun(t, s)[n] = FibAgain(FibRun(t, s)[n - 1], (s + n) % FibN)
         /\ FibLive(FibRun(t, s)[FibN - 1].tab, G)
<1> DEFINE M == FibN - 1
           St == {w \in [tab : FibTable, done : BOOLEAN] : FibLive(w.tab, G)}
           a == [tab |-> [t EXCEPT ![s] = FibFree], done |-> FALSE]
           H == [n \in 1 .. M |-> [w \in St |-> FibAgain(w, (s + n) % FibN)]]
           Is(g) == g = [n \in 0 .. M |-> IF n = 0 THEN a ELSE FibAgain(g[n - 1], (s + n) % FibN)]
<1>1. M \in Nat /\ FibN \in Nat /\ s \in Nat
  BY FibAssumption DEF FibSlot
<1>2. ASSUME NEW r, FibLive(r, G), NEW m \in FibSlot PROVE FibLive([r EXCEPT ![m] = FibFree], G)
  <2> DEFINE r0 == [r EXCEPT ![m] = FibFree]
  <2>1. r0 \in FibTable /\ r0[m] = FibFree /\ \A x \in FibSlot : x # m => r0[x] = r[x]
    BY <1>2 DEF FibLive, FibTable
  <2> HIDE DEF r0
  <2>2. FibLive(r0, G)
    BY <1>2, <2>1 DEF FibLive, FibUsed
  <2> QED BY <2>2 DEF r0
<1>3. a \in St
  <2> DEFINE r0 == [t EXCEPT ![s] = FibFree]
  <2>1. FibLive(r0, G)
    BY <1>2
  <2> HIDE DEF r0
  <2>2. r0 \in FibTable
    BY <2>1 DEF FibLive
  <2>3. a = [tab |-> r0, done |-> FALSE]
    BY DEF r0
  <2> QED BY <2>1, <2>2, <2>3
<1>4. ASSUME NEW w \in St, NEW m \in FibSlot PROVE FibAgain(w, m) \in St
  <2> DEFINE r == w.tab
             r0 == [r EXCEPT ![m] = FibFree]
             d == Added(r0, r[m].prefix, r[m].path)
  <2>1. r \in FibTable /\ w.done \in BOOLEAN /\ FibLive(r, G) /\ w \in [tab : FibTable, done : BOOLEAN]
    OBVIOUS
  <2>2. FibLive(r0, G)
    BY <1>2, <2>1
  <2>3. CASE w.done \/ r[m] = FibFree
    <3>1. FibAgain(w, m) = [w EXCEPT !.done = TRUE]
      BY <2>3 DEF FibAgain
    <3> QED BY <2>1, <3>1
  <2>4. CASE ~(w.done \/ r[m] = FibFree)
    <3>1. r[m] \in FibRoutes
      BY <2>1, <2>4 DEF FibTable
    <3>2. FibAgain(w, m) = [w EXCEPT !.tab = d]
      BY <2>4 DEF FibAgain
    <3> HIDE DEF r0
    <3>3. FibLive(d, G)
      BY <2>2, <3>1, FibRouteHas, AddedLive
    <3> HIDE DEF d
    <3>4. d \in FibTable
      BY <3>3 DEF FibLive
    <3> QED BY <2>1, <3>2, <3>3, <3>4
  <2> QED BY <2>3, <2>4
<1>5. \A n \in 1 .. M : (s + n) % FibN \in FibSlot
  <2>1. HashArgs(FibHash) /\ s \in HashSlot(FibHash) /\ FibHash.n = FibN /\ HashSlot(FibHash) = FibSlot
    BY FibHashIs
  <2>2. \A n \in 0 .. FibN - 1 : (s + n) % FibN \in FibSlot
    BY <2>1, HashAt
  <2>3. \A n \in 1 .. M : n \in 0 .. FibN - 1
    BY <1>1
  <2> QED BY <2>2, <2>3
<1>50. \A w \in St : FibLive(w.tab, G)
  OBVIOUS
<1> HIDE DEF a, St, M
<1>6. H \in [1 .. M -> [St -> St]] /\ \A n \in 1 .. M : \A w \in St : H[n][w] = FibAgain(w, (s + n) % FibN)
  <2>1. \A n \in 1 .. M : [w \in St |-> FibAgain(w, (s + n) % FibN)] \in [St -> St]
    BY <1>4, <1>5
  <2> QED BY <2>1
<1> HIDE DEF H
<1>7. PICK f \in StepRuns(St, a, M, H) : TRUE
  BY <1>1, <1>3, <1>6, StepsExist
<1>8. f \in [0 .. M -> St] /\ f[0] = a /\ \A n \in 1 .. M : f[n] = H[n][f[n - 1]]
  BY ONLY <1>7 DEF StepRuns
<1>9. ASSUME NEW n \in 0 .. M PROVE f[n] = IF n = 0 THEN a ELSE FibAgain(f[n - 1], (s + n) % FibN)
  <2>1. CASE n = 0
    BY <1>8, <2>1
  <2>2. CASE n # 0
    <3>1. n \in 1 .. M /\ n - 1 \in 0 .. M
      BY <1>1, <2>2
    <3>2. f[n] = FibAgain(f[n - 1], (s + n) % FibN)
      BY <1>6, <1>8, <3>1
    <3> QED BY <2>2, <3>2
  <2> QED BY <2>1, <2>2
<1>10. Is(f)
  BY <1>8, <1>9
<1> DEFINE W == FibRun(t, s)
<1>11. W = CHOOSE g : Is(g)
  BY DEF FibRun, M, a
<1>12. Is(W)
  <2> HIDE DEF Is, W
  <2> QED BY <1>10, <1>11
<1> HIDE DEF W
<1>13. \A n \in 0 .. M : W[n] = IF n = 0 THEN a ELSE FibAgain(W[n - 1], (s + n) % FibN)
  BY <1>12
<1>14. W[0] = a
  <2>1. 0 \in 0 .. M
    BY <1>1
  <2>2. W[0] = IF 0 = 0 THEN a ELSE FibAgain(W[0 - 1], (s + 0) % FibN)
    BY <1>13, <2>1
  <2> QED BY <2>2
<1>15. ASSUME NEW n \in 1 .. M PROVE W[n] = FibAgain(W[n - 1], (s + n) % FibN)
  <2>1. n \in 0 .. M /\ n # 0
    BY <1>1
  <2> QED BY <1>13, <2>1
<1> DEFINE S == {n \in 0 .. M : W[n] \in St}
<1>16. 0 \in S
  BY <1>1, <1>3, <1>14
<1>17. ASSUME NEW n \in Nat, n \in S, n < M PROVE n + 1 \in S
  <2>1. n + 1 \in 1 .. M /\ n + 1 \in 0 .. M /\ n + 1 - 1 = n /\ W[n] \in St
    BY <1>1, <1>17
  <2>2. W[n + 1] = FibAgain(W[n + 1 - 1], (s + (n + 1)) % FibN)
    BY <1>15, <2>1
  <2>3. (s + (n + 1)) % FibN \in FibSlot
    BY <1>5, <2>1
  <2> DEFINE m == (s + (n + 1)) % FibN
  <2>4. W[n + 1] = FibAgain(W[n], m) /\ m \in FibSlot
    BY <2>1, <2>2, <2>3
  <2> HIDE DEF m
  <2>5. W[n + 1] \in St
    BY <1>4, <2>1, <2>4
  <2> QED BY <2>1, <2>5
<1>18. W[M] \in St
  <2> HIDE DEF S
  <2>1. \A n \in 0 .. M : n \in S
    BY <1>1, <1>16, <1>17, Inducts
  <2>2. M \in S
    BY <1>1, <2>1
  <2> QED BY <2>2 DEF S
<1>19. FibLive(W[M].tab, G)
  BY <1>50, <1>18
<1> QED BY <1>14, <1>15, <1>19 DEF M, a, W

LEMMA RemovedLive ==
  ASSUME NEW t, NEW G, FibLive(t, G), NEW s \in FibSlot
  PROVE  FibLive(Removed(t, s), G)
<1>1. Removed(t, s) = FibRun(t, s)[FibN - 1].tab
  BY DEF Removed, FibRun
<1> QED BY <1>1, FibRunSteps

LEMMA RemovedRest ==
  ASSUME NEW t, NEW G, FibLive(t, G), FibWell(t), Cardinality(FibUsed(t)) <= (3 * FibN) \div 4, NEW s \in FibUsed(t)
  PROVE  HashRest(FibHash, t, s, Removed(t, s))
<1> DEFINE W == FibRun(t, s)
<1>1. s \in FibSlot /\ HashWell(FibHash, t) /\ s \in HashUsed(FibHash, t)
  BY FibHashIs DEF FibWell, FibUsed
<1>2. Removed(t, s) = W[FibN - 1].tab
  BY DEF Removed, FibRun
<1>3. W[0] = [tab |-> [t EXCEPT ![s] = FibFree], done |-> FALSE]
  BY <1>1, FibRunSteps
<1>4. \A n \in 1 .. FibN - 1 : W[n] = FibAgain(W[n - 1], (s + n) % FibN)
  BY <1>1, FibRunSteps
<1> HIDE DEF W
<1>5. PICK f \in FibSlot : t[f] = FibFree
  BY FibFreeSlot
<1>6. ASSUME NEW n \in 1 .. FibN - 1, HashOk(FibHash, t, s, n - 1, W[n - 1])
      PROVE  W[n] = HashStep(FibHash, W[n - 1], (s + n) % FibN)
  <2>1. FibN \in Nat /\ n \in 0 .. FibN - 1 /\ n - 1 \in Nat /\ n - 1 + 1 = n /\ n - 1 + 1 < FibN
    BY FibAssumption
  <2>2. (s + n) % FibN \in FibSlot /\ HashDist(FibHash, (s + n) % FibN, s) = n - 1 + 1
    <3>1. HashArgs(FibHash) /\ s \in HashSlot(FibHash) /\ FibHash.n = FibN /\ HashSlot(FibHash) = FibSlot
      BY <1>1, FibHashIs
    <3> QED BY <2>1, <3>1, HashAt
  <2> DEFINE m == (s + n) % FibN
             q == n - 1
  <2>3. q \in Nat /\ q + 1 < FibN /\ m \in FibSlot /\ HashDist(FibHash, m, s) = q + 1 /\ HashOk(FibHash, t, s, q, W[q])
    BY <1>6, <2>1, <2>2
  <2> HIDE DEF m, q
  <2>4. FibAgain(W[q], m) = HashStep(FibHash, W[q], m)
    BY <2>3, FibAgainIs
  <2> QED BY <1>4, <2>4 DEF m, q
<1>7. HashRest(FibHash, t, s, W[FibN - 1].tab)
  <2>1. HashArgs(FibHash) /\ None \notin HashSlot(FibHash) /\ f \in HashSlot(FibHash) /\ t[f] = FibHash.free /\ FibHash.n = FibN
    BY <1>5, FibHashIs
  <2>2. W[0] = [tab |-> [t EXCEPT ![s] = FibHash.free], done |-> FALSE]
    BY <1>3, FibHashIs
  <2>3. \A n \in 1 .. FibHash.n - 1 :
          HashOk(FibHash, t, s, n - 1, W[n - 1]) => W[n] = HashStep(FibHash, W[n - 1], (s + n) % FibHash.n)
    BY <1>6, <2>1
  <2>4. HashRest(FibHash, t, s, W[FibHash.n - 1].tab)
    BY <1>1, <2>1, <2>2, <2>3, HashRun
  <2> QED BY <2>1, <2>4
<1> QED BY <1>2, <1>7

-----------------------------------------------------------------------------
(* What the table holds is what was asked for.                             *)
FibTo(r) == IF r.ecmp = 0 THEN r.path ELSE r.ecmp
FibKept(t, w) ==
  /\ \A x \in FibUsed(t) : w[t[x].prefix] = FibTo(t[x])
  /\ \A p \in Prefixes : w[p] # None => \E x \in FibUsed(t) : t[x].prefix = p
FibInv ==
  /\ FibLive(routes, ecmp) /\ lens = LensOf(routes) /\ ecmp \subseteq Groups
  /\ want \in [Prefixes -> Target \cup {None}]
  /\ ~holed => FibWell(routes) /\ FibKept(routes, want)

LEMMA FibEntryAt ==
  ASSUME NEW t \in FibTable, NEW x \in FibUsed(t)
  PROVE  /\ x \in FibSlot /\ t[x] \in FibRoutes /\ t[x].prefix \in Prefixes /\ t[x].ecmp \in Groups \cup {0}
         /\ FibTo(t[x]) # None
<1>1. x \in FibSlot /\ t[x] \in FibRoutes
  BY DEF FibUsed, FibTable
<1> DEFINE r == t[x]
<1>2. r.prefix \in Prefixes /\ r.path \in Paths \cup {Zero} /\ r.ecmp \in Groups \cup {0}
  BY <1>1, FibRouteHas
<1> HIDE DEF r
<1>3. FibTo(r) \in Paths \cup {Zero} \cup Groups
  BY <1>2 DEF FibTo
<1>4. None \notin Paths \cup {Zero} \cup Groups
  BY FibAssumption
<1> QED BY <1>1, <1>2, <1>3, <1>4 DEF r

\* Both ways of adding a route write it where the probe for its prefix ends.
LEMMA FibPut ==
  ASSUME NEW t, NEW G, FibLive(t, G), NEW p \in Prefixes, NEW path \in Paths \cup {Zero},
         NEW g \in Groups \cup {0}, g # 0 => g \in G, RouteSlot(t, p) # None,
         NEW w, w = HashWith(t, RouteSlot(t, p), Route(p, path, g)),
         NEW v, v \in [Prefixes -> Target \cup {None}]
  PROVE  /\ FibLive(w, G) /\ LensOf(w) = LensOf(t) \cup {p.len}
         /\ FibWell(t) => FibWell(w)
         /\ FibWell(t) /\ FibKept(t, v) => FibKept(w, HashWith(v, p, FibTo(Route(p, path, g))))
<1> DEFINE s == RouteSlot(t, p)
           r == Route(p, path, g)
<1>1. /\ t \in FibTable /\ s \in FibSlot /\ HashEnd(FibHash, t, p, s)
      /\ t[s] = FibFree \/ (t[s] \in FibRoutes /\ t[s].prefix = p)
  <2>1. t \in FibTable
    BY DEF FibLive
  <2> QED BY <2>1, RouteSlotAt
<1>2. r \in FibRoutes /\ r.prefix = p /\ r.path = path /\ r.ecmp = g
  BY FibRouteIs
<1>3. w = [t EXCEPT ![s] = r] /\ w = HashWith(t, s, Route(p, path, g))
  BY DEF HashWith
<1>4. FibLive(w, G) /\ w[s] = r /\ FibUsed(w) = FibUsed(t) \cup {s} /\ \A x \in FibSlot : x # s => w[x] = t[x]
  <2> HIDE DEF s
  <2>1. /\ FibLive(t, G) /\ s \in FibSlot /\ p \in Prefixes /\ path \in Paths \cup {Zero}
        /\ g \in Groups \cup {0} /\ (g # 0 => g \in G) /\ w = HashWith(t, s, Route(p, path, g))
    BY <1>1, <1>3
  <2> QED BY ONLY <2>1, FibWrite DEF r
<1> HIDE DEF s, r
<1>5. LensOf(w) = LensOf(t) \cup {p.len}
  <2>1. ASSUME NEW x \in FibUsed(w) PROVE w[x].prefix.len \in LensOf(t) \cup {p.len}
    <3>1. CASE x = s
      BY <1>2, <1>4, <3>1
    <3>2. CASE x # s
      <4>1. x \in FibUsed(t) /\ w[x] = t[x]
        BY <1>4, <2>1, <3>2 DEF FibUsed
      <4> QED BY <4>1 DEF LensOf
    <3> QED BY <3>1, <3>2
  <2>2. ASSUME NEW x \in FibUsed(t) PROVE \E y \in FibUsed(w) : w[y].prefix.len = t[x].prefix.len
    <3>1. CASE x = s
      <4>1. t[s].prefix = p
        BY <1>1, <2>2, <3>1 DEF FibUsed
      <4> QED BY <1>2, <1>4, <3>1, <4>1
    <3>2. CASE x # s
      <4>1. x \in FibSlot /\ x \in FibUsed(w)
        BY <1>4, <2>2 DEF FibUsed
      <4> QED BY <1>4, <3>2, <4>1
    <3> QED BY <3>1, <3>2
  <2>3. p.len \in LensOf(w)
    BY <1>2, <1>4 DEF LensOf
  <2>4. LensOf(t) \subseteq LensOf(w)
    <3> SUFFICES ASSUME NEW l \in LensOf(t) PROVE l \in LensOf(w)
      OBVIOUS
    <3>1. PICK x \in FibUsed(t) : l = t[x].prefix.len
      BY DEF LensOf
    <3>2. PICK y \in FibUsed(w) : w[y].prefix.len = t[x].prefix.len
      BY <2>2
    <3> QED BY <3>1, <3>2 DEF LensOf
  <2>5. LensOf(w) \subseteq LensOf(t) \cup {p.len}
    <3> SUFFICES ASSUME NEW l \in LensOf(w) PROVE l \in LensOf(t) \cup {p.len}
      OBVIOUS
    <3>1. PICK x \in FibUsed(w) : l = w[x].prefix.len
      BY DEF LensOf
    <3> QED BY <2>1, <3>1
  <2> QED BY <2>3, <2>4, <2>5
<1>6. ASSUME FibWell(t) PROVE FibWell(w)
  <2> DEFINE h == FibHash
  <2>1. h.key[r] = p /\ r \in h.val
    BY <1>2, FibHashIs
  <2>2. HashArgs(h) /\ HashWell(h, t) /\ r \in h.val /\ HashEnd(h, t, h.key[r], s) /\ w = HashWith(t, s, r)
    BY <1>1, <1>3, <1>6, <2>1, FibHashIs DEF FibWell, HashWith
  <2> HIDE DEF h
  <2>3. HashWell(h, w)
    BY ONLY <2>2, HashPutWell
  <2> QED BY <2>3 DEF h, FibWell
<1>7. ASSUME FibWell(t), FibKept(t, v) PROVE FibKept(w, HashWith(v, p, FibTo(r)))
  <2> DEFINE u == HashWith(v, p, FibTo(r))
  <2>1. u[p] = FibTo(r) /\ \A q \in Prefixes : q # p => u[q] = v[q]
    BY DEF HashWith
  <2> HIDE DEF u
  <2>2. \A x \in FibUsed(t) : t[x].prefix = p => x = s
    BY <1>7, RouteSlotFinds DEF s, FibWell
  <2>3. ASSUME NEW x \in FibUsed(w) PROVE u[w[x].prefix] = FibTo(w[x])
    <3>1. CASE x = s
      BY <1>2, <1>4, <2>1, <3>1
    <3>2. CASE x # s
      <4>1. x \in FibUsed(t) /\ w[x] = t[x]
        BY <1>4, <2>3, <3>2 DEF FibUsed
      <4>2. t[x].prefix \in Prefixes /\ t[x].prefix # p
        BY <1>1, <2>2, <3>2, <4>1, FibEntryAt
      <4> QED BY <1>7, <2>1, <4>1, <4>2 DEF FibKept
    <3> QED BY <3>1, <3>2
  <2>4. ASSUME NEW q \in Prefixes, u[q] # None PROVE \E x \in FibUsed(w) : w[x].prefix = q
    <3>1. CASE q = p
      BY <1>2, <1>4, <3>1
    <3>2. CASE q # p
      <4>1. PICK x \in FibUsed(t) : t[x].prefix = q
        BY <1>7, <2>1, <2>4, <3>2 DEF FibKept
      <4>2. x # s /\ x \in FibSlot /\ x \in FibUsed(w)
        BY <1>1, <1>4, <3>2, <4>1 DEF FibUsed
      <4> QED BY <1>4, <4>1, <4>2
    <3> QED BY <3>1, <3>2
  <2>5. FibKept(w, u)
    BY <2>3, <2>4 DEF FibKept
  <2> QED BY <2>5 DEF u
<1> QED BY <1>4, <1>5, <1>6, <1>7 DEF r

LEMMA FibStarts == ASSUME FibInit PROVE FibInv
<1>1. routes = [s \in FibSlot |-> FibFree] /\ lens = {} /\ ecmp = {} /\ want = [p \in Prefixes |-> None]
  BY DEF FibInit
<1>2. routes \in FibTable /\ FibUsed(routes) = {}
  BY <1>1 DEF FibTable, FibUsed
<1>3. FibWell(routes)
  BY <1>2, FibHashIs DEF HashWell, FibWell
<1>4. LensOf(routes) = {} /\ FibLive(routes, ecmp) /\ FibKept(routes, want)
  BY <1>1, <1>2 DEF LensOf, FibLive, FibKept
<1> QED BY <1>1, <1>3, <1>4 DEF FibInv

LEMMA RouteAddKeeps == ASSUME FibInv, NEW p \in Prefixes, NEW path \in FibOffers[p], RouteAdd(p, path) PROVE FibInv'
<1> DEFINE z == 0
<1>1. /\ ~FibFull(routes, p) /\ routes' = Added(routes, p, path) /\ lens' = lens \cup {p.len}
      /\ want' = [want EXCEPT ![p] = path] /\ ecmp' = ecmp /\ holed' = holed
  BY DEF RouteAdd
<1>2. RouteSlot(routes, p) # None /\ path \in Paths
  BY <1>1 DEF FibFull, Paths
<1>3. /\ z \in Groups \cup {0} /\ (z # 0 => z \in ecmp) /\ FibTo(Route(p, path, z)) = path
      /\ routes' = [routes EXCEPT ![RouteSlot(routes, p)] = Route(p, path, z)]
  BY <1>1, <1>2 DEF Added, FibTo, Route
<1> HIDE DEF z
<1>4. FibLive(routes, ecmp) /\ want \in [Prefixes -> Target \cup {None}] /\ path \in Paths \cup {Zero}
  BY <1>2 DEF FibInv
<1> DEFINE w == routes'
<1>5. w = HashWith(routes, RouteSlot(routes, p), Route(p, path, z))
  BY <1>3 DEF HashWith
<1> HIDE DEF w
<1>6. FibLive(w, ecmp) /\ LensOf(w) = LensOf(routes) \cup {p.len} /\ (FibWell(routes) => FibWell(w))
  BY <1>2, <1>3, <1>4, <1>5, FibPut
<1>7. FibWell(routes) /\ FibKept(routes, want) => FibKept(w, HashWith(want, p, FibTo(Route(p, path, z))))
  BY <1>2, <1>3, <1>4, <1>5, FibPut
<1>8. FibWell(routes) /\ FibKept(routes, want) => FibKept(w, want')
  <2>1. want' = HashWith(want, p, FibTo(Route(p, path, z)))
    BY <1>1, <1>3 DEF HashWith
  <2> QED BY <1>7, <2>1
<1>9. want' \in [Prefixes -> Target \cup {None}]
  BY <1>1, <1>2, <1>4 DEF Target
<1>10. FibLive(routes', ecmp') /\ lens' = LensOf(routes')
  BY <1>1, <1>6 DEF FibInv, w
<1> QED BY <1>1, <1>6, <1>8, <1>9, <1>10 DEF FibInv, w

LEMMA RouteMultipathKeeps == ASSUME FibInv, NEW p \in Prefixes, RouteMultipath(p) PROVE FibInv'
<1>1. PICK g \in Groups :
         /\ EcmpAdd(g) /\ holed' = holed
         /\ IF RouteSlot(routes, p) = None THEN routes' = routes /\ lens' = lens /\ want' = want
            ELSE /\ routes' = AddedEcmp(routes, p, g) /\ lens' = lens \cup {p.len}
                 /\ want' = [want EXCEPT ![p] = g]
  BY DEF RouteMultipath
<1>2. ecmp' = ecmp \cup {g} /\ ecmp' \subseteq Groups
  BY <1>1 DEF EcmpAdd, FibInv
<1> DEFINE G == ecmp'
<1>3. FibLive(routes, G) /\ g \in G
  BY <1>2 DEF FibInv, FibLive
<1>4. CASE RouteSlot(routes, p) = None
  BY <1>1, <1>2, <1>3, <1>4 DEF FibInv
<1>5. CASE RouteSlot(routes, p) # None
  <2> DEFINE w == routes'
  <2>1. w = HashWith(routes, RouteSlot(routes, p), Route(p, Zero, g))
    BY <1>1, <1>5 DEF AddedEcmp, HashWith
  <2>2. g \in Groups \cup {0} /\ g # 0 /\ FibTo(Route(p, Zero, g)) = g /\ Zero \in Paths \cup {Zero}
    BY FibAssumption DEF FibTo, Route
  <2>3. want \in [Prefixes -> Target \cup {None}]
    BY DEF FibInv
  <2> HIDE DEF w, G
  <2>4. FibLive(w, G) /\ LensOf(w) = LensOf(routes) \cup {p.len} /\ (FibWell(routes) => FibWell(w))
    BY <1>3, <1>5, <2>1, <2>2, <2>3, FibPut
  <2>5. FibWell(routes) /\ FibKept(routes, want) => FibKept(w, HashWith(want, p, FibTo(Route(p, Zero, g))))
    BY <1>3, <1>5, <2>1, <2>2, <2>3, FibPut
  <2>6. FibWell(routes) /\ FibKept(routes, want) => FibKept(w, want')
    <3>1. want' = HashWith(want, p, FibTo(Route(p, Zero, g)))
      BY <1>1, <1>5, <2>2 DEF HashWith
    <3> QED BY <2>5, <3>1
  <2>7. want' \in [Prefixes -> Target \cup {None}] /\ lens' = LensOf(w)
    BY <1>1, <1>5, <2>3, <2>4 DEF Target, FibInv
  <2> QED BY <1>1, <1>2, <2>4, <2>6, <2>7 DEF FibInv, w, G
<1> QED BY <1>4, <1>5

LEMMA RouteDelKeeps == ASSUME FibInv, NEW p \in Prefixes, RouteDel(p) PROVE FibInv'
<1> DEFINE s == RouteSlot(routes, p)
           w == Removed(routes, s)
<1>1. /\ s # None /\ routes[s] # FibFree /\ routes' = w /\ lens' = LensOf(w)
      /\ want' = [want EXCEPT ![p] = None] /\ ecmp' = ecmp
      /\ holed' = (holed \/ Cardinality(FibUsed(routes)) > (3 * FibN) \div 4
                         \/ \E x \in FibUsed(routes) : routes[x].ecmp # 0)
  <2>1. routes' = Removed(routes, RouteSlot(routes, p))
    BY DEF RouteDel
  <2>2. lens' = LensOf(Removed(routes, RouteSlot(routes, p)))
    <3>1. lens' = LensOf(routes')
      BY DEF RouteDel
    <3> QED BY <2>1, <3>1
  <2> QED BY <2>1, <2>2 DEF RouteDel
<1>2. FibLive(routes, ecmp) /\ routes \in FibTable /\ want \in [Prefixes -> Target \cup {None}]
  BY DEF FibInv, FibLive
<1>3. s \in FibSlot /\ routes[s].prefix = p /\ s \in FibUsed(routes)
  BY <1>1, <1>2, RouteSlotAt DEF FibUsed
<1> HIDE DEF s
<1>4. FibLive(w, ecmp)
  BY <1>2, <1>3, RemovedLive
<1> HIDE DEF w
<1>5. want' \in [Prefixes -> Target \cup {None}] /\ want'[p] = None /\ \A q \in Prefixes : q # p => want'[q] = want[q]
  BY <1>1, <1>2
<1>6. ASSUME ~holed' PROVE FibWell(w) /\ FibKept(w, want')
  <2>1. ~holed /\ FibWell(routes) /\ FibKept(routes, want)
    BY <1>1, <1>6 DEF FibInv
  <2>2. /\ \A x \in FibUsed(routes) : routes[x].ecmp = 0
        /\ Cardinality(FibUsed(routes)) <= (3 * FibN) \div 4
    <3>1. ~(Cardinality(FibUsed(routes)) > (3 * FibN) \div 4) /\ ~\E x \in FibUsed(routes) : routes[x].ecmp # 0
      BY <1>1, <1>6
    <3>2. Cardinality(FibUsed(routes)) \in Nat /\ (3 * FibN) \div 4 \in Nat
      BY FibLoad
    <3> QED BY <3>1, <3>2
  <2>3. HashRest(FibHash, routes, s, w)
    BY <1>2, <1>3, <2>1, <2>2, RemovedRest DEF w
  <2>4. FibWell(w) /\ HashFrom(FibHash, routes, s, w)
    BY <2>3 DEF HashRest, FibWell
  <2>5. \A y \in FibUsed(routes) : FibHash.again[routes[y]] = routes[y]
    BY <1>2, <2>2, FibEntryAt, FibRouteHas, FibHashIs
  <2>6. \A x \in FibUsed(w) : \E y \in FibUsed(routes) \ {s} : w[x] = routes[y]
    <3>1. \A x \in FibUsed(w) : \E y \in FibUsed(routes) \ {s} : w[x] \in {routes[y], FibHash.again[routes[y]]}
      BY <2>4, FibHashIs DEF HashFrom
    <3> QED BY <2>5, <3>1
  <2>7. \A y \in FibUsed(routes) \ {s} : \E x \in FibUsed(w) : w[x] = routes[y]
    <3>1. \A y \in FibUsed(routes) \ {s} : \E x \in FibUsed(w) : w[x] \in {routes[y], FibHash.again[routes[y]]}
      BY <2>4, FibHashIs DEF HashFrom
    <3> QED BY <2>5, <3>1
  <2>8. \A y \in FibUsed(routes) : routes[y].prefix = p => y = s
    BY <2>1, RouteSlotFinds DEF FibWell, s
  <2>9. ASSUME NEW x \in FibUsed(w) PROVE want'[w[x].prefix] = FibTo(w[x])
    <3>1. PICK y \in FibUsed(routes) \ {s} : w[x] = routes[y]
      BY <2>6
    <3>2. routes[y].prefix \in Prefixes /\ routes[y].prefix # p
      BY <1>2, <2>8, <3>1, FibEntryAt
    <3> QED BY <1>5, <2>1, <3>1, <3>2 DEF FibKept
  <2>10. ASSUME NEW q \in Prefixes, want'[q] # None PROVE \E x \in FibUsed(w) : w[x].prefix = q
    <3>1. q # p /\ want[q] # None
      BY <1>5, <2>10
    <3>2. PICK y \in FibUsed(routes) : routes[y].prefix = q
      BY <2>1, <3>1 DEF FibKept
    <3>3. y # s
      BY <1>3, <3>1, <3>2
    <3> QED BY <2>7, <3>2, <3>3
  <2> QED BY <2>4, <2>9, <2>10 DEF FibKept
<1>7. ecmp' \subseteq Groups
  BY <1>1 DEF FibInv
<1> QED BY <1>1, <1>4, <1>5, <1>6, <1>7 DEF FibInv

LEMMA EcmpDelKeeps == ASSUME FibInv, NEW g \in Groups, EcmpDel(g) PROVE FibInv'
<1> DEFINE w == [s \in FibSlot |-> IF routes[s] # FibFree /\ routes[s].ecmp = g THEN FibFree ELSE routes[s]]
<1>1. /\ ecmp' = ecmp \ {g} /\ routes' = w /\ want' = [p \in Prefixes |-> IF want[p] = g THEN None ELSE want[p]]
      /\ holed' = (holed \/ w # routes)
  <2>1. routes' = w
    BY DEF EcmpDel
  <2> HIDE DEF w
  <2> QED BY <2>1 DEF EcmpDel
<1>2. lens' = LensOf(routes')
  BY DEF EcmpDel
<1>3. routes \in FibTable /\ FibLive(routes, ecmp) /\ ecmp \subseteq Groups /\ want \in [Prefixes -> Target \cup {None}]
  BY DEF FibInv, FibLive
<1>4. w \in FibTable
  BY <1>3 DEF FibTable
<1>5. \A x \in FibSlot : w[x] = FibFree \/ (w[x] = routes[x] /\ (routes[x] # FibFree => routes[x].ecmp # g))
  OBVIOUS
<1> HIDE DEF w
<1>6. FibLive(w, ecmp \ {g})
  BY <1>3, <1>4, <1>5 DEF FibLive, FibUsed
<1>7. want' \in [Prefixes -> Target \cup {None}]
  BY <1>1, <1>3
<1>8. ASSUME ~holed' PROVE FibWell(w) /\ FibKept(w, want')
  <2>1. w = routes /\ FibWell(routes) /\ FibKept(routes, want)
    BY <1>1, <1>8 DEF FibInv
  <2>2. ASSUME NEW x \in FibUsed(routes) PROVE FibTo(routes[x]) # g
    <3> DEFINE r == routes[x]
    <3>1. r.path \in Paths \cup {Zero} /\ r.ecmp # g /\ g \notin Paths \cup {Zero}
      BY <1>3, <1>5, <2>1, <2>2, FibEntryAt, FibRouteHas, FibAssumption DEF FibUsed
    <3> HIDE DEF r
    <3>2. FibTo(r) # g
      BY <3>1 DEF FibTo
    <3> QED BY <3>2 DEF r
  <2>3. \A q \in Prefixes : want[q] # g
    <3> SUFFICES ASSUME NEW q \in Prefixes, want[q] = g PROVE FALSE
      OBVIOUS
    <3>1. want[q] # None
      BY FibAssumption
    <3>2. PICK x \in FibUsed(routes) : routes[x].prefix = q
      BY <2>1, <3>1 DEF FibKept
    <3> QED BY <2>1, <2>2, <3>2 DEF FibKept
  <2>4. want' = want
    BY <1>1, <1>3, <2>3
  <2> QED BY <2>1, <2>4
<1> QED BY <1>1, <1>2, <1>3, <1>6, <1>7, <1>8 DEF FibInv

LEMMA FlushKeeps == ASSUME FibInv, Flush PROVE FibInv'
<1>1. /\ routes' = [s \in FibSlot |-> FibFree] /\ lens' = {} /\ want' = [p \in Prefixes |-> None] /\ ecmp' = ecmp
  BY DEF Flush
<1>2. routes' \in FibTable /\ FibUsed(routes') = {}
  BY <1>1 DEF FibTable, FibUsed
<1>3. FibWell(routes')
  BY <1>2, FibHashIs DEF HashWell, FibWell
<1>4. LensOf(routes') = {} /\ FibLive(routes', ecmp) /\ FibKept(routes', want')
  BY <1>1, <1>2 DEF LensOf, FibLive, FibKept
<1>5. want' \in [Prefixes -> Target \cup {None}] /\ ecmp \subseteq Groups
  BY <1>1 DEF FibInv
<1> QED BY <1>1, <1>3, <1>4, <1>5 DEF FibInv

LEMMA FibNextKeeps == ASSUME FibInv, [FibNext]_fibVars PROVE FibInv'
<1>1. CASE UNCHANGED fibVars
  <2>1. routes' = routes /\ lens' = lens /\ ecmp' = ecmp /\ want' = want /\ holed' = holed
    BY <1>1 DEF fibVars
  <2> QED BY <2>1 DEF FibInv
<1>2. CASE \E p \in Prefixes : \E path \in FibOffers[p] : RouteAdd(p, path)
  BY <1>2, RouteAddKeeps
<1>3. CASE \E p \in Prefixes : RouteDel(p)
  BY <1>3, RouteDelKeeps
<1>4. CASE \E p \in Prefixes : RouteMultipath(p)
  BY <1>4, RouteMultipathKeeps
<1>5. CASE \E g \in Groups : EcmpDel(g)
  BY <1>5, EcmpDelKeeps
<1>6. CASE Flush
  BY <1>6, FlushKeeps
<1> QED BY <1>1, <1>2, <1>3, <1>4, <1>5, <1>6 DEF FibNext

\* Of a set of prefixes, one is longest.
LEMMA FibLongest ==
  ASSUME NEW C, C \subseteq Prefixes, C # {}
  PROVE  \E p \in C : \A q \in C : p.len >= q.len
<1> DEFINE T == {FibW - p.len : p \in C}
<1>1. FibW \in Nat /\ \A p \in Prefixes : p.len \in 0 .. FibW
  <2>1. FibW \in Nat /\ Prefixes \subseteq [bits : Nat, len : 0 .. FibW]
    BY FibAssumption
  <2> QED BY <2>1
<1>2. T \subseteq Nat /\ T # {}
  BY <1>1
<1>3. PICK n \in T : \A m \in T : n <= m
  <2> HIDE DEF T
  <2> QED BY <1>2, SmallestOf
<1>4. PICK p \in C : n = FibW - p.len
  OBVIOUS
<1>5. ASSUME NEW q \in C PROVE p.len >= q.len
  <2>1. FibW - p.len <= FibW - q.len
    BY <1>3, <1>4
  <2> QED BY <1>1, <2>1
<1> QED BY <1>5

LEMMA FibInvSafe == ASSUME FibInv PROVE FibSafe
<1>1. routes \in FibTable /\ FibLive(routes, ecmp) /\ want \in [Prefixes -> Target \cup {None}]
  BY DEF FibInv, FibLive
<1>2. FibTypeOK
  <2>1. \A s \in FibSlot : routes[s] = FibFree \/ routes[s] \in FibRoutes
    BY <1>1 DEF FibTable
  <2> QED BY <1>1, <2>1 DEF FibTypeOK, FibInv
<1>3. NoDeadGroup
  BY <1>1 DEF NoDeadGroup, FibLive
<1>4. ASSUME ~holed, NEW a \in FibAddr PROVE FibLookup(a) = Lpm(a)
  <2>1. HashWell(FibHash, routes) /\ FibKept(routes, want)
    BY <1>4 DEF FibInv, FibWell
  <2> DEFINE Hits == {p \in Prefixes : /\ p.len \in lens /\ FibCovers(p, a)
                                       /\ RouteSlot(routes, p) # None
                                       /\ routes[RouteSlot(routes, p)] # FibFree}
             C == {p \in Prefixes : want[p] # None /\ FibCovers(p, a)}
             best == CHOOSE p \in Hits : \A q \in Hits : p.len >= q.len
             r == routes[RouteSlot(routes, best)]
  <2>2. ASSUME NEW p \in Prefixes, want[p] # None
        PROVE  /\ p.len \in lens /\ RouteSlot(routes, p) # None /\ routes[RouteSlot(routes, p)] # FibFree
    <3>1. PICK x \in FibUsed(routes) : routes[x].prefix = p
      BY <2>1, <2>2 DEF FibKept
    <3>2. RouteSlot(routes, p) = x
      BY <2>1, <3>1, RouteSlotFinds
    <3>3. x # None /\ routes[x] # FibFree
      BY FibAssumption DEF FibUsed
    <3>4. p.len \in LensOf(routes)
      BY <3>1 DEF LensOf
    <3> QED BY <3>2, <3>3, <3>4 DEF FibInv
  <2>3. ASSUME NEW p \in Prefixes, RouteSlot(routes, p) # None, routes[RouteSlot(routes, p)] # FibFree
        PROVE  want[p] # None /\ want[p] = FibTo(routes[RouteSlot(routes, p)]) /\ RouteSlot(routes, p) \in FibUsed(routes)
    <3> DEFINE s == RouteSlot(routes, p)
    <3>1. s \in FibUsed(routes) /\ routes[s].prefix = p
      BY <1>1, <2>3, RouteSlotAt DEF FibUsed
    <3> HIDE DEF s
    <3>2. want[p] = FibTo(routes[s]) /\ FibTo(routes[s]) # None
      BY <1>1, <2>1, <3>1, FibEntryAt DEF FibKept
    <3> QED BY <3>1, <3>2 DEF s
  <2>4. Hits = C
    BY <2>2, <2>3
  <2>5. /\ FibLookup(a) = IF Hits = {} THEN None
                          ELSE IF r.ecmp = 0 THEN r.path
                          ELSE IF r.ecmp \in ecmp THEN r.ecmp ELSE None
        /\ Lpm(a) = IF C = {} THEN None ELSE want[CHOOSE p \in C : \A q \in C : p.len >= q.len]
    BY DEF FibLookup, Lpm
  <2>6. CASE Hits = {}
    BY <2>4, <2>5, <2>6
  <2>7. CASE Hits # {}
    <3>1. \E p \in Hits : \A q \in Hits : p.len >= q.len
      <4>1. Hits \subseteq Prefixes
        OBVIOUS
      <4> HIDE DEF Hits
      <4> QED BY <2>7, <4>1, FibLongest
    <3>2. best \in Hits
      <4> HIDE DEF Hits
      <4> QED BY <3>1
    <3> DEFINE s == RouteSlot(routes, best)
    <3>3. best \in Prefixes /\ s # None /\ routes[s] # FibFree
      <4> HIDE DEF best
      <4> QED BY <3>2
    <3>4. Lpm(a) = want[best]
      <4>1. C # {}
        BY <2>4, <2>7
      <4> HIDE DEF C, Hits
      <4> QED BY <2>4, <2>5, <4>1
    <3> HIDE DEF best, Hits, C
    <3>5. want[best] = FibTo(routes[s]) /\ s \in FibUsed(routes)
      BY <2>3, <3>3
    <3>6. r.ecmp # 0 => r.ecmp \in ecmp
      BY <1>3, <3>5 DEF NoDeadGroup
    <3>7. FibLookup(a) = FibTo(r)
      BY <2>5, <2>7, <3>6 DEF FibTo
    <3> QED BY <3>4, <3>5, <3>7
  <2> QED BY <2>6, <2>7
<1> QED BY <1>2, <1>3, <1>4 DEF FibSafe, LongestPrefix

\* "Longest-prefix match by construction", and no route refers to a freed group:
\* through every sequence of additions, replacements and removals that put the
\* rest of a cluster in again, a destination takes the longest configured prefix.
THEOREM RoutesSafe == FibSpec => []FibSafe
<1>1. FibInit => FibInv
  BY FibStarts
<1>2. FibInv /\ [FibNext]_fibVars => FibInv'
  BY FibNextKeeps
<1>3. FibInv => FibSafe
  BY FibInvSafe
<1> QED BY <1>1, <1>2, <1>3, PTL DEF FibSpec
=============================================================================
