------------------------------ MODULE MC_Dataplane ------------------------------
(*
   The components of the forwarder and of its drivers, and the tunnels
   between the processors, on small instances. The focus of a behaviour
   says which of them moves; they share no state here. *)
EXTENDS DpFib, DpNeigh, DpBuffers, DpScan, DpPorts, DpTrunk, DpnetRing,
  CpdpTransport, FabricOwners, PcnetRing

VARIABLE focus

MCPrefixes == {[bits |-> 0, len |-> 0], [bits |-> 0, len |-> 1], [bits |-> 2,
  len |-> 1], [bits |-> 1, len |-> 2]}
MCFibOffers == [p \in Prefixes |-> {11 + p.bits + p.len}]
MCFibHome == [p \in Prefixes |-> IF p.len = 2 \/ p.bits = 2 THEN 3 ELSE 0]
MCArpHome == [ip \in {1, 2, 3} |-> IF ip = 3 THEN 0 ELSE 3]
MCSigs == <<[pat |-> <<1, 2, 1, 1>>, act |-> 2], [pat |-> <<2, 1>>, act |->
  1], [pat |-> <<1, 1, 2>>, act |-> 3]>>
MCRules == <<[pat |-> <<2, 2, 2>>, act |-> 2]>>
MCPayload == UNION {[1 .. n -> {1, 2}] : n \in 1 .. 3}
PrtCmds ==
  {[op |-> "ping"], [op |-> "enum"], [op |-> "bank", bank |-> 0], [op |-> "bank", bank |-> 1]}
    \cup [op : {"config"}, port : {1}, role : {"data", "ha"}, has : BOOLEAN, mgmt : {FALSE}]
    \cup {[op |-> "config", port |-> 1, role |-> "data", has |-> TRUE, mgmt |-> TRUE]}
    \cup [op : {"admin"}, port : {1}, up : BOOLEAN]
MCFabDeployments == {
  [who |-> {"phy", "agg"}, boots |-> {1, 2}, asks |-> None, faults |-> 1],
  [who |-> {"wan"}, boots |-> {1, 2}, asks |-> None, faults |-> 1],
  [who |-> {"phy", "wan", "agg"}, boots |-> {1}, asks |-> 2, faults |-> 2]}

Focus == {"Fib", "Arp", "Buf", "Scan", "Prt", "Trunk", "Net", "Cpdp", "Fab",
  "Pcn"}

MCInit ==
  /\ focus \in Focus
  /\ FibInit
  /\ ArpInit
  /\ BufInit
  /\ ScanInit
  /\ PrtInit
  /\ TrunkInit
  /\ NetInit
  /\ CpdpInit
  /\ FabInit
  /\ PcnInit
  \* a component that never moves needs one initial state only
  /\ focus # "Scan" => on = {"ctd"}
  /\ focus # "Prt" => link = [p \in DOMAIN link |-> FALSE]
  /\ focus # "Net" => ring = "c2d"
  /\ focus # "Fab" => fabWho.asks = 2
  /\ focus # "Pcn" => pcnRing = "h2o" /\ pcnHead = 0 /\ pcnTail = 0 /\ pcnSlot[0].len = "zero"

\* One component moves, the others keep their initial state.
MCNext ==
  \/ /\ focus = "Fib" /\ FibNext
     /\ UNCHANGED <<focus, arpVars, bufVars, scanVars, prtVars, trunkVars,
          netVars, cpdpVars, fabVars, pcnVars>>
  \/ /\ focus = "Arp" /\ ArpNext
     /\ UNCHANGED <<focus, fibVars, bufVars, scanVars, prtVars, trunkVars,
          netVars, cpdpVars, fabVars, pcnVars>>
  \/ /\ focus = "Buf" /\ BufNext
     /\ UNCHANGED <<focus, fibVars, arpVars, scanVars, prtVars, trunkVars,
          netVars, cpdpVars, fabVars, pcnVars>>
  \/ /\ focus = "Scan" /\ ScanNext
     /\ UNCHANGED <<focus, fibVars, arpVars, bufVars, prtVars, trunkVars,
          netVars, cpdpVars, fabVars, pcnVars>>
  \/ /\ focus = "Prt" /\ PrtNext
     /\ UNCHANGED <<focus, fibVars, arpVars, bufVars, scanVars, trunkVars,
          netVars, cpdpVars, fabVars, pcnVars>>
  \/ /\ focus = "Trunk" /\ TrunkNext
     /\ UNCHANGED <<focus, fibVars, arpVars, bufVars, scanVars, prtVars,
          netVars, cpdpVars, fabVars, pcnVars>>
  \/ /\ focus = "Net" /\ NetNext
     /\ UNCHANGED <<focus, fibVars, arpVars, bufVars, scanVars, prtVars,
          trunkVars, cpdpVars, fabVars, pcnVars>>
  \/ /\ focus = "Cpdp" /\ CpdpNext
     /\ UNCHANGED <<focus, fibVars, arpVars, bufVars, scanVars, prtVars,
          trunkVars, netVars, fabVars, pcnVars>>
  \/ /\ focus = "Fab" /\ FabNext
     /\ UNCHANGED <<focus, fibVars, arpVars, bufVars, scanVars, prtVars,
          trunkVars, netVars, cpdpVars, pcnVars>>
  \/ /\ focus = "Pcn" /\ PcnNext
     /\ UNCHANGED <<focus, fibVars, arpVars, bufVars, scanVars, prtVars,
          trunkVars, netVars, cpdpVars, fabVars>>

\* The fairness each component's module states, while it is the one that moves.
MCFairness ==
  /\ \A c \in {"c1", "c2"} : WF_bufVars(focus = "Buf" /\ Step(c))
  /\ \A b \in {"b1", "b2"} : WF_bufVars(focus = "Buf" /\ PkoDone(b))
  /\ WF_trunkVars(focus = "Trunk" /\ TrunkAge)
  /\ \A g \in {0, 1} : WF_trunkVars(focus = "Trunk" /\ Thread(g))
  /\ WF_netVars(focus = "Net" /\ Produce)
  /\ WF_netVars(focus = "Net" /\ Consume)
  /\ WF_netVars(focus = "Net" /\ Lifetime)
  /\ WF_cpdpVars(focus = "Cpdp" /\ Daemon)
  /\ WF_cpdpVars(focus = "Cpdp" /\ Tool)
  /\ WF_fabVars(focus = "Fab" /\ PhyStep)
  /\ WF_fabVars(focus = "Fab" /\ WanStep)
  /\ WF_fabVars(focus = "Fab" /\ AggStep)
  /\ SF_fabVars(focus = "Fab" /\ Watchdog)
  /\ SF_fabVars(focus = "Fab" /\ Sweep)
  /\ WF_pcnVars(focus = "Pcn" /\ Producing)
  /\ WF_pcnVars(focus = "Pcn" /\ Consuming)
  /\ WF_pcnVars(focus = "Pcn" /\ HostInit)

MCSpec == MCInit /\ [][MCNext]_<<focus, fibVars, arpVars, bufVars, scanVars,
  prtVars, trunkVars, netVars, cpdpVars, fabVars, pcnVars>> /\ MCFairness

-----------------------------------------------------------------------------
\* A full queue drains or faults, even when the hardware completes nothing.
MCFullResolves == (focus = "Trunk") => FullResolves

\* After the last fault the ring drains: nothing published stays behind,
\* whatever stale counter a restart left in the header.
MCNetDrains == (focus = "Net") => NetDrains

\* Under the same condition no call runs into its timeout.
MCCallReturns == (focus = "Cpdp") => CallReturns

\* An aggregate whose lease has run out has its links closed.
MCLeaseEnforced == (focus = "Fab") => LeaseEnforced

\* "One corrupt slot can never wedge the ring": a running consumer empties it.
MCUnwedged == (focus = "Pcn") => Unwedged

\* What the forwarder, the drivers and the tunnels come to in the end.
DataplaneProgress ==
  /\ MCFullResolves
  /\ MCNetDrains
  /\ MCCallReturns
  /\ MCLeaseEnforced
  /\ MCUnwedged

=============================================================================
