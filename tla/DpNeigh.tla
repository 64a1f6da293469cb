------------------------------- MODULE DpNeigh -------------------------------
(***************************************************************************)
(* Neighbour resolution of the forwarder: the neighbour table of           *)
(* ffn_dp_l3.c and the ARP handling of ffn_dp_arp.c, driven by packets     *)
(* routed to a next hop, by ARP frames and by the clock of dp_poll_once.   *)
(*                                                                         *)
(* Time advances in units of DP_ARP_RETRY_MS = DP_ARP_TICK_MS; an entry    *)
(* keeps the age of its last probe, up to Dead, instead of a time stamp.   *)
(***************************************************************************)
EXTENDS FfnCommon, Integers, FiniteSets

CONSTANTS
  ArpAddr, Mac,  \* addresses of neighbours, MAC addresses
  Null,       \* the MAC of an entry nobody answered for: six zero bytes
  ArpN, ArpHome,    \* neigh_slots and mix(ip) & mask
  MaxProbes, Dead,
  ArpFree

VARIABLES
  neigh,      \* neigh[slot]: Free or [ip, mac, state, probes, age]
  asked       \* asked[ip]: requests for ip sent since the clock last advanced

arpVars == <<neigh, asked>>
ArpSlot == 0 .. ArpN - 1
ArpEntry == [ip : ArpAddr, mac : Mac \cup {Null}, state : {"incomplete", "reachable"},
             probes : 0 .. MaxProbes, age : 0 .. Dead]
\* The table has slots, every address a home among them; a request may be sent.
ASSUME ArpAssumption ==
  /\ ArpN \in Nat \ {0} /\ ArpHome \in [ArpAddr -> ArpSlot]
  /\ MaxProbes \in Nat \ {0} /\ Dead \in Nat
  /\ ArpFree \notin ArpEntry /\ None \notin ArpSlot

ArpThe(S) == CHOOSE x \in S : TRUE  \* the only element of S
ArpUsed(t) == {s \in ArpSlot : t[s] # ArpFree}

NeighSlot(t, ip) ==
  LET At(n) == (ArpHome[ip] + n) % ArpN
      Ends == {n \in 0 .. ArpN - 1 : t[At(n)] = ArpFree \/ t[At(n)].ip = ip}
  IN  IF Ends = {} THEN None ELSE At(CHOOSE n \in Ends : \A m \in Ends : n <= m)
Find(t, ip) == LET s == NeighSlot(t, ip)
               IN  IF s = None THEN ArpFree ELSE t[s]
Room(t, ip) == LET s == NeighSlot(t, ip)
               IN  s # None /\ (t[s] = ArpFree => Cardinality(ArpUsed(t)) + 1 <= (3 * ArpN) \div 4)

\* dp_l3_neigh_add: the address is resolved.  The age of a probe stays.
Add(t, ip, mac) ==
  LET s == NeighSlot(t, ip)
      old == IF t[s] = ArpFree THEN 0 ELSE t[s].age
  IN  IF ~Room(t, ip) THEN t
      ELSE [t EXCEPT ![s] = [ip |-> ip, mac |-> mac, state |-> "reachable", probes |-> 0, age |-> old]]

\* dp_l3_neigh_del at slot s: clear it and add the rest of its cluster again, up
\* to the first free slot.
ArpAgain(was, m) ==
  LET e == was.tab[m]
  IN  IF was.done \/ e = ArpFree THEN [was EXCEPT !.done = TRUE]
      ELSE [was EXCEPT !.tab = Add([was.tab EXCEPT ![m] = ArpFree], e.ip, e.mac)]
Del(t, s) ==
  LET Step[n \in 0 .. ArpN - 1] ==
        IF n = 0 THEN [tab |-> [t EXCEPT ![s] = ArpFree], done |-> FALSE]
        ELSE ArpThe({ArpAgain(was, (s + n) % ArpN) : was \in {Step[n - 1]}})
  IN  Step[ArpN - 1].tab

\* The entries dp_arp_tick reaps.
ArpStale(e) == e # ArpFree /\ e.state = "incomplete" /\ e.probes >= MaxProbes /\ e.age >= Dead

\* dp_arp_tick: walk the slots, looking again at one whose entry was reaped.
Visit(was) ==
  IF was.at = ArpN THEN was
  ELSE IF ArpStale(was.tab[was.at]) THEN [was EXCEPT !.tab = Del(was.tab, was.at)]
  ELSE [was EXCEPT !.at = was.at + 1]
ArpReap(t) ==
  LET Walk[n \in 0 .. 2 * ArpN] ==
        IF n = 0 THEN [tab |-> t, at |-> 0] ELSE ArpThe({Visit(was) : was \in {Walk[n - 1]}})
  IN  Walk[2 * ArpN].tab

----------------------------------------------------------------------------
ArpInit ==
  /\ neigh = [s \in ArpSlot |-> ArpFree]
  /\ asked = [ip \in ArpAddr |-> 0]

\* dp.l3.neigh.<id> of the configuration, and an ARP frame that may create an
\* entry because it is addressed to us.  A request for our address is answered
\* at once, which leaves no trace here.
Learn(ip, mac) == neigh' = Add(neigh, ip, mac) /\ UNCHANGED asked

\* An ARP frame about somebody else only refreshes an entry there is.
Overhear(ip, mac) == Find(neigh, ip) # ArpFree /\ Learn(ip, mac)

\* Mutant: the time since the last probe is not looked at.
MayAskAgain(e) == e # ArpFree => e.state = "incomplete" /\ e.probes < MaxProbes
\* dp_arp_request: whether an unresolved next hop is asked for now.
MayAsk(e) == e # ArpFree => e.state = "incomplete" /\ e.age >= 1 /\ e.probes < MaxProbes

\* A packet whose next hop is ip and has no resolved entry: a request goes out,
\* if it is time and there is room to remember it.
ArpPacket(ip) ==
  LET e == Find(neigh, ip)
      s == NeighSlot(neigh, ip)
      probes == IF e = ArpFree THEN 0 ELSE e.probes
      mac == IF e = ArpFree THEN Null ELSE e.mac
      asks == MayAsk(e) /\ Room(neigh, ip)
  IN  /\ asks
      /\ neigh' = [neigh EXCEPT ![s] =
           [ip |-> ip, mac |-> mac, state |-> "incomplete", probes |-> probes + 1, age |-> 0]]
      /\ asked' = [asked EXCEPT ![ip] = @ + 1]

\* dp_clock_service and dp_l3_service.
ArpSecond ==
  LET Older(e) == IF e = ArpFree \/ e.age = Dead THEN e ELSE [e EXCEPT !.age = @ + 1]
  IN  /\ neigh' = ArpReap([s \in ArpSlot |-> Older(neigh[s])])
      /\ asked' = [ip \in ArpAddr |-> 0]

ArpNext ==
  \/ \E ip \in ArpAddr, mac \in Mac :
       Learn(ip, mac) \/ Overhear(ip, mac)
  \/ \E ip \in ArpAddr : ArpPacket(ip)
  \/ ArpSecond

\* The poll loop of the forwarder runs for ever.
ArpFairness == WF_arpVars(ArpSecond)
ArpSpec == ArpInit /\ [][ArpNext]_arpVars /\ ArpFairness

----------------------------------------------------------------------------
\* Every entry is well formed, found by the probe for its address, and the table
\* keeps the quarter of free slots that ends a probe.
ArpTypeOK ==
  /\ \A s \in ArpUsed(neigh) : neigh[s] \in ArpEntry /\ NeighSlot(neigh, neigh[s].ip) = s
  /\ Cardinality(ArpUsed(neigh)) <= (3 * ArpN) \div 4
  /\ asked \in [ArpAddr -> Nat]

\* "Without this ... a single flow toward an unreachable host becomes an ARP
\* flood": however entries are reaped, moved and made again, two requests for
\* one address are at least DP_ARP_RETRY_MS apart.
RequestsSpaced == \A ip \in ArpAddr : asked[ip] <= 1

\* One entry per address, and requests are spaced.
ArpSafe ==
  /\ ArpTypeOK
  /\ RequestsSpaced
=============================================================================
