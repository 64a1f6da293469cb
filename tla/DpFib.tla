------------------------------- MODULE DpFib -------------------------------
(***************************************************************************)
(* The forwarder's routing table (ffn_dp_l3.c): an open-addressed hash     *)
(* table of prefixes probed linearly, searched from the longest prefix     *)
(* length down, with equal-cost groups kept beside it.                     *)
(*                                                                         *)
(* Addresses have W bits.  What a route leads to (next hop and egress) is  *)
(* a path; Zero is next hop 0 on egress 0.                                 *)
(***************************************************************************)
EXTENDS FfnCommon, Integers, FiniteSets

CONSTANTS
  FibW,          \* address width in bits
  Prefixes,   \* the prefixes requests name: [bits |-> , len |-> ]
  FibOffers,     \* Offers[p]: the next hops requests give for a prefix
  Groups,     \* 1 .. DP_L3_MAX_ECMP_GROUPS - 1
  FibN,          \* route_slots, a power of two
  FibHome,       \* route_hash & mask: [Prefixes -> 0 .. N - 1]
  Zero, FibFree

VARIABLES
  routes,     \* routes[slot]: Free or a route
  lens,       \* len_bitmap
  ecmp,       \* the groups in use
  want,       \* what accepted calls asked for: want[p] is a path, a group or None
  holed       \* since it was empty, a removal has met an ECMP route or a table
              \* over its load limit

fibVars == <<routes, lens, ecmp, want, holed>>

FibSlot == 0 .. FibN - 1
Paths == UNION {FibOffers[p] : p \in Prefixes}
FibRoutes == [prefix : Prefixes, path : Paths \cup {Zero}, ecmp : Groups \cup {0}]
\* Every prefix has a home slot, and paths, groups and nothing can be told apart.
ASSUME FibAssumption ==
  /\ FibW \in Nat /\ Prefixes \subseteq [bits : Nat, len : 0 .. FibW]
  /\ FibN \in Nat \ {0} /\ FibHome \in [Prefixes -> FibSlot]
  /\ Groups \subseteq Nat \ {0}
  /\ (Paths \cup {Zero}) \cap (Groups \cup {None}) = {} /\ None \notin FibSlot \cup Groups
  /\ FibFree \notin FibRoutes

FibAddr == 0 .. 2^FibW - 1
FibCovers(p, a) == a \div 2^(FibW - p.len) = p.bits \div 2^(FibW - p.len)
Route(p, path, g) == [prefix |-> p, path |-> path, ecmp |-> g]
FibUsed(t) == {s \in FibSlot : t[s] # FibFree}
LensOf(t) == {t[s].prefix.len : s \in FibUsed(t)}

\* The slot where the probe for p ends: the first that is free or holds p.
\* None when the whole table was walked.
RouteSlot(t, p) ==
  LET At(n) == (FibHome[p] + n) % FibN
      Ends == {n \in 0 .. FibN - 1 : t[At(n)] = FibFree \/ t[At(n)].prefix = p}
  IN  IF Ends = {} THEN None ELSE At(CHOOSE n \in Ends : \A m \in Ends : n <= m)

\* dp_l3_route_add on table t; the table is unchanged when it answers FULL.
FibFull(t, p) ==
  LET s == RouteSlot(t, p)
  IN  s = None \/ (t[s] = FibFree /\ Cardinality(FibUsed(t)) + 1 > (3 * FibN) \div 4)
Added(t, p, path) ==
  IF FibFull(t, p) THEN t ELSE [t EXCEPT ![RouteSlot(t, p)] = Route(p, path, 0)]

\* Mutant: the slot is cleared and what was probed past it stays where it is.
RemovedInPlace(t, s) == [t EXCEPT ![s] = FibFree]
\* Clearing slot s and putting the rest of its cluster in again, one after the
\* other, by dp_l3_route_add, which knows nothing of a route's group.
FibAgain(was, m) ==
  LET r == was.tab[m]
  IN  IF was.done \/ r = FibFree THEN [was EXCEPT !.done = TRUE]
      ELSE [was EXCEPT !.tab = Added([was.tab EXCEPT ![m] = FibFree], r.prefix, r.path)]
Removed(t, s) ==
  LET Step[n \in 0 .. FibN - 1] ==
        IF n = 0 THEN [tab |-> [t EXCEPT ![s] = FibFree], done |-> FALSE]
        ELSE FibAgain(Step[n - 1], (s + n) % FibN)
  IN  Step[FibN - 1].tab

\* dp_l3_lookup_hash: the path or group a destination takes, or None.  Which
\* member of a group carries a flow depends on the flow's hash.
FibLookup(a) ==
  LET Hits == {p \in Prefixes : /\ p.len \in lens /\ FibCovers(p, a)
                                /\ RouteSlot(routes, p) # None
                                /\ routes[RouteSlot(routes, p)] # FibFree}
      best == CHOOSE p \in Hits : \A q \in Hits : p.len >= q.len
      r == routes[RouteSlot(routes, best)]
  IN  IF Hits = {} THEN None
      ELSE IF r.ecmp = 0 THEN r.path
      ELSE IF r.ecmp \in ecmp THEN r.ecmp ELSE None

----------------------------------------------------------------------------
FibInit ==
  /\ routes = [s \in FibSlot |-> FibFree] /\ lens = {}
  /\ ecmp = {}
  /\ want = [p \in Prefixes |-> None]
  /\ holed = FALSE

RouteAdd(p, path) ==
  /\ ~FibFull(routes, p)
  /\ routes' = Added(routes, p, path)
  /\ lens' = lens \cup {p.len}
  /\ want' = [want EXCEPT ![p] = path]
  /\ UNCHANGED <<ecmp, holed>>

RouteDel(p) ==
  LET s == RouteSlot(routes, p)
  IN  /\ s # None /\ routes[s] # FibFree
      /\ routes' = Removed(routes, s)
      /\ lens' = LensOf(routes')
      /\ want' = [want EXCEPT ![p] = None]
      /\ holed' = (holed \/ Cardinality(FibUsed(routes)) > (3 * FibN) \div 4
                         \/ \E x \in FibUsed(routes) : routes[x].ecmp # 0)
      /\ UNCHANGED ecmp

\* A route with several legs: once all legs are parsed, the lowest free group is
\* made of them, then the route is added, without the load limit of a single
\* path.  The group stays when the table has no room for the route.
EcmpAdd(g) == g \notin ecmp /\ (\A x \in Groups \ ecmp : g <= x) /\ ecmp' = ecmp \cup {g}
AddedEcmp(t, p, g) == [t EXCEPT ![RouteSlot(t, p)] = Route(p, Zero, g)]
RouteMultipath(p) ==
  \E g \in Groups :
      /\ EcmpAdd(g)
      /\ IF RouteSlot(routes, p) = None THEN UNCHANGED <<routes, lens, want>>
         ELSE /\ routes' = AddedEcmp(routes, p, g)
              /\ lens' = lens \cup {p.len}
              /\ want' = [want EXCEPT ![p] = g]
      /\ UNCHANGED holed

EcmpDel(g) ==
  /\ g \in ecmp
  /\ ecmp' = ecmp \ {g}
  /\ routes' = [s \in FibSlot |-> IF routes[s] # FibFree /\ routes[s].ecmp = g THEN FibFree ELSE routes[s]]
  /\ lens' = LensOf(routes')
  /\ want' = [p \in Prefixes |-> IF want[p] = g THEN None ELSE want[p]]
  /\ holed' = (holed \/ routes' # routes)

Flush ==
  /\ routes' = [s \in FibSlot |-> FibFree] /\ lens' = {}
  /\ want' = [p \in Prefixes |-> None] /\ holed' = FALSE
  /\ UNCHANGED ecmp

FibNext ==
  \/ \E p \in Prefixes :
       \/ \E path \in FibOffers[p] : RouteAdd(p, path)
       \/ RouteDel(p)
       \/ RouteMultipath(p)
  \/ \E g \in Groups : EcmpDel(g)
  \/ Flush

FibSpec == FibInit /\ [][FibNext]_fibVars

----------------------------------------------------------------------------
Target == Paths \cup {Zero} \cup Groups
FibTypeOK ==
  /\ \A s \in FibSlot : routes[s] = FibFree \/ routes[s] \in FibRoutes
  /\ lens = LensOf(routes)
  /\ ecmp \subseteq Groups
  /\ \A p \in Prefixes : want[p] = None \/ want[p] \in Target

\* The reference: of the routes asked for, the longest that covers a.
Lpm(a) ==
  LET C == {p \in Prefixes : want[p] # None /\ FibCovers(p, a)}
  IN  IF C = {} THEN None ELSE want[CHOOSE p \in C : \A q \in C : p.len >= q.len]

\* "Longest-prefix match by construction": through every sequence of additions,
\* replacements and removals that shift the cluster, a destination is sent where
\* the longest configured prefix says, as long as no removal met an ECMP route or
\* more routes than the load limit, which ECMP routes are not held to: the walk
\* that puts the cluster in again answers FULL for some of them.
LongestPrefix == ~holed => \A a \in FibAddr : FibLookup(a) = Lpm(a)

\* "Routes pointing at a freed group would otherwise dereference a hole": no
\* route in the table refers to a group that is free.
NoDeadGroup == \A s \in FibUsed(routes) : routes[s].ecmp # 0 => routes[s].ecmp \in ecmp

\* The table answers with the longest installed prefix and a live group.
FibSafe ==
  /\ FibTypeOK
  /\ LongestPrefix
  /\ NoDeadGroup
=============================================================================
